---- MODULE Spec2Model ----
(***************************************************************************)
(* B.I.E.R warehouse management: the product, warehouse and inventory      *)
(* services of bierapp/backend/services.py over the document store of      *)
(* bierapp/db/mongodb.py.  In Spec every service call runs to completion   *)
(* in one step, as one request handled alone does.  In SpecRace two        *)
(* threads of the web server handle one request each: they run the calls   *)
(* that write one database call at a time, interleaved.  SpecActors is     *)
(* Spec with two callers of the inventory service, one of whom passes      *)
(* performed_by.  SpecRoutes has the routes of the web interface that      *)
(* delete.  The store is a plain one: the indexes of db/init/setup.py, a   *)
(* script the application does not call, are not part of it.               *)
(*                                                                         *)
(* Documents are records; an ObjectId is a positive number, and 0 stands   *)
(* for an id that resolves to no document.  Quantities are integers (the   *)
(* callers pass int(...)), so the isinstance checks always pass.  Text is  *)
(* a sequence of characters.  A call that raises writes nothing: it is a   *)
(* step that leaves every variable unchanged, and the exception it raises  *)
(* is the value of the call's *_raises operator.                           *)
(***************************************************************************)
EXTENDS Integers, Sequences, FiniteSets, TLC

VARIABLES lager, produkte, inventar, events, next_oid, requests

\* the four collections and the ObjectId source
vars == <<lager, produkte, inventar, events, next_oid>>

\* with the requests that are in flight
rvars == <<lager, produkte, inventar, events, next_oid, requests>>

(***************************************************************************)
(* Bounds of the model.                                                    *)
(***************************************************************************)
\* successful mutating calls per run (each appends one event)
MaxEvents == 2
\* largest quantity a caller passes
MaxMenge == 1
\* largest capacity a caller passes
MaxPlaetze == 2

\* an id that resolves to no document (None, the empty string, an unknown ObjectId)
NoSuchId == 0
\* a key the document does not carry
Absent == "<absent>"
\* find_one returning None
None == [_id |-> NoSuchId, lager_id |-> NoSuchId, produkt_id |-> NoSuchId, menge |-> 0]
\* a call that returns normally
OK == <<"ok", "">>

(***************************************************************************)
(* The document store (MongoDBAdapter).  lager and produkte map the ids    *)
(* that resolve to their documents; inventar is the set of its documents.  *)
(***************************************************************************)
\* find_by_id(...) is not None
Exists(coll, document_id) == document_id \in DOMAIN coll

\* all inventar documents of one warehouse
find_inventory_by_warehouse(inv, lager_id) == {e \in inv : e.lager_id = lager_id}

\* find(): the documents of inventar in the order of their insertion
RECURSIVE find_all(_)
find_all(inv) ==
    IF inv = {} THEN <<>>
    ELSE LET first == CHOOSE e \in inv : \A other \in inv : e._id <= other._id
         IN  <<first>> \o find_all(inv \ {first})

\* find_one over the pair: a matching document, or None
find_inventory_entry(inv, lager_id, produkt_id) ==
    LET found == {e \in inv : e.lager_id = lager_id /\ e.produkt_id = produkt_id}
    IN  IF found = {} THEN {None} ELSE found

\* insert_one into inventar under a fresh ObjectId
db_insert(inv, oid, lager_id, produkt_id, menge) ==
    inv \cup {[_id |-> oid, lager_id |-> lager_id, produkt_id |-> produkt_id, menge |-> menge]}

\* update_one({"_id": oid}, {"$set": {"menge": menge}})
db_update(inv, document_id, menge) ==
    {IF e._id = document_id THEN [e EXCEPT !.menge = menge] ELSE e : e \in inv}

\* delete_one({"_id": oid})
db_delete(inv, document_id) == {e \in inv : e._id # document_id}

\* the truth value of a looked-up document
Truthy(doc) == doc # None

(***************************************************************************)
(* Text: str.strip() removes the blanks at both ends.                      *)
(***************************************************************************)
Strip(text) ==
    LET inked == {i \in 1..Len(text) : text[i] # " "}
        first == CHOOSE i \in inked : \A j \in inked : i <= j
        final == CHOOSE i \in inked : \A j \in inked : i >= j
    IN  IF inked = {} THEN <<>> ELSE SubSeq(text, first, final)

\* the stored document with the fields of allowed set ($set)
Merge(doc, allowed) ==
    [k \in DOMAIN doc \cup DOMAIN allowed |->
        IF k \in DOMAIN allowed THEN allowed[k] ELSE doc[k]]

\* update_one({"_id": oid}, {"$set": data}) on lager or produkte: an id that matches no
\* document changes nothing
db_set(coll, document_id, data) ==
    IF Exists(coll, document_id)
    THEN [coll EXCEPT ![document_id] = Merge(@, data)]
    ELSE coll

\* a slip: the delete matches no document and the collection stays as it is
Without_unmatched(coll, document_id) == coll

\* a collection without one document, and with one more
Without(coll, document_id) == [i \in DOMAIN coll \ {document_id} |-> coll[i]]
With(coll, document_id, doc) ==
    [i \in DOMAIN coll \cup {document_id} |-> IF i = document_id THEN doc ELSE coll[i]]

(***************************************************************************)
(* Audit events.                                                           *)
(***************************************************************************)
\* entity_id lists the ids the text joins with ":"; summary lists the values the
\* text interpolates; a timestamp is not kept
\* a slip: the event names the default actor whoever the caller is
Event_system(entity_type, action, entity_id, performed_by, summary) ==
    [entity_type |-> entity_type, action |-> action, entity_id |-> entity_id,
     performed_by |-> IF performed_by = Absent THEN Absent ELSE "system",
     summary |-> summary]

Event(entity_type, action, entity_id, performed_by, summary) ==
    [entity_type |-> entity_type, action |-> action, entity_id |-> entity_id,
     performed_by |-> performed_by, summary |-> summary]

\* doc.get("name", product_id) of a looked-up document or {}
ProductName(product_id) ==
    IF Exists(produkte, product_id) THEN produkte[product_id].name
    ELSE <<ToString(product_id)>>

WarehouseName(warehouse_id) ==
    IF Exists(lager, warehouse_id) THEN lager[warehouse_id].lagername
    ELSE <<ToString(warehouse_id)>>

\* a slip: the event is written twice
Emit_twice(e) == events' = Append(Append(events, e), e)

\* a slip: the new event takes the place of the latest one
Emit_replacing(e) ==
    events' = IF events = <<>> THEN <<e>> ELSE [events EXCEPT ![Len(events)] = e]

\* self._db.insert(COLLECTION_EVENTS, ...)
Emit(e) == events' = Append(events, e)

\* a slip: the failure is logged as an event before the exception leaves the call
Raised_logged(outcome) ==
    /\ outcome # OK
    /\ events' = Append(events, [entity_type |-> "fehler", action |-> outcome[1],
                                  entity_id |-> <<>>, performed_by |-> Absent,
                                  summary |-> <<outcome[2]>>])
    /\ UNCHANGED <<lager, produkte, inventar, next_oid>>

\* an exception leaves the call before any write
Raised(outcome) == outcome # OK /\ UNCHANGED vars

\* a run is followed until MaxEvents calls have written
RunOpen == Len(events) < MaxEvents

\* a call that runs alone and to completion: no request is in flight beside it
Serial == RunOpen /\ UNCHANGED requests

(***************************************************************************)
(* InventoryService.add_product                                            *)
(***************************************************************************)
\* a slip: the warehouse and the product are looked up before the quantity is tested
add_product_raises_existence_first(warehouse_id, product_id, quantity) ==
    IF ~Exists(lager, warehouse_id) THEN <<"KeyError", "lager">>
    ELSE IF ~Exists(produkte, product_id) THEN <<"KeyError", "produkt">>
    ELSE IF quantity < 0 THEN <<"ValueError", "menge">>
    ELSE OK

\* a slip: a quantity of 0 is rejected, as removeStock and move do
add_product_raises_positive(warehouse_id, product_id, quantity) ==
    IF quantity <= 0 THEN <<"ValueError", "menge">>
    ELSE IF ~Exists(lager, warehouse_id) THEN <<"KeyError", "lager">>
    ELSE IF ~Exists(produkte, product_id) THEN <<"KeyError", "produkt">>
    ELSE OK

add_product_raises(warehouse_id, product_id, quantity) ==
    IF quantity < 0 THEN <<"ValueError", "menge">>
    ELSE IF ~Exists(lager, warehouse_id) THEN <<"KeyError", "lager">>
    ELSE IF ~Exists(produkte, product_id) THEN <<"KeyError", "produkt">>
    ELSE OK

\* a slip: the new quantity replaces the stored one
add_new_quantity_overwrite(existing, quantity) == quantity

add_new_quantity(existing, quantity) == existing.menge + quantity

\* a slip: the row is inserted without looking at the existing one
add_write_always_insert(inv, existing, oid, warehouse_id, product_id, quantity) ==
    db_insert(inv, oid, warehouse_id, product_id, quantity)

\* a slip: the quantity is added to what the row holds at the time of the write
add_write_increment(inv, existing, oid, warehouse_id, product_id, quantity) ==
    IF Truthy(existing)
    THEN {IF e._id = existing._id THEN [e EXCEPT !.menge = e.menge + quantity] ELSE e :
            e \in inv}
    ELSE db_insert(inv, oid, warehouse_id, product_id, quantity)

\* a slip: the insert is an upsert on the pair, which adds to a row that is there by
\* the time of the write
add_write_upsert(inv, existing, oid, warehouse_id, product_id, quantity) ==
    IF Truthy(existing)
    THEN db_update(inv, existing._id, add_new_quantity(existing, quantity))
    ELSE IF \E e \in inv : e.lager_id = warehouse_id /\ e.produkt_id = product_id
    THEN {IF e.lager_id = warehouse_id /\ e.produkt_id = product_id
          THEN [e EXCEPT !.menge = e.menge + quantity] ELSE e : e \in inv}
    ELSE db_insert(inv, oid, warehouse_id, product_id, quantity)

add_write(inv, existing, oid, warehouse_id, product_id, quantity) ==
    IF Truthy(existing)
    THEN db_update(inv, existing._id, add_new_quantity(existing, quantity))
    ELSE db_insert(inv, oid, warehouse_id, product_id, quantity)

add_product(warehouse_id, product_id, quantity, performed_by) ==
    \/ Raised(add_product_raises(warehouse_id, product_id, quantity))
    \/ /\ add_product_raises(warehouse_id, product_id, quantity) = OK
       /\ \E existing \in find_inventory_entry(inventar, warehouse_id, product_id) :
            /\ inventar' = add_write(inventar, existing, next_oid, warehouse_id,
                                     product_id, quantity)
            /\ next_oid' = IF Truthy(existing) THEN next_oid ELSE next_oid + 1
       /\ Emit(Event("inventar", "stock_add", <<warehouse_id, product_id>>, performed_by,
                     <<quantity, ProductName(product_id), WarehouseName(warehouse_id)>>))
       /\ UNCHANGED <<lager, produkte>>

(***************************************************************************)
(* InventoryService.update_quantity                                        *)
(***************************************************************************)
update_quantity_raises(quantity, entry) ==
    IF quantity < 0 THEN <<"ValueError", "menge">>
    ELSE IF ~Truthy(entry) THEN <<"KeyError", "eintrag">>
    ELSE OK

\* a slip: setting the quantity to 0 deletes the row
update_quantity_write_delete_zero(inv, entry, quantity) ==
    IF quantity = 0 THEN db_delete(inv, entry._id) ELSE db_update(inv, entry._id, quantity)

\* a slip: the quantity is added to the stored one, as add does
update_quantity_write_additive(inv, entry, quantity) ==
    db_update(inv, entry._id, entry.menge + quantity)

update_quantity_write(inv, entry, quantity) == db_update(inv, entry._id, quantity)

update_quantity(warehouse_id, product_id, quantity, performed_by) ==
    \E entry \in find_inventory_entry(inventar, warehouse_id, product_id) :
      \/ Raised(update_quantity_raises(quantity, entry))
      \/ /\ update_quantity_raises(quantity, entry) = OK
         /\ inventar' = update_quantity_write(inventar, entry, quantity)
         /\ Emit(Event("inventar", "stock_update", <<warehouse_id, product_id>>, performed_by,
                       <<ProductName(product_id), WarehouseName(warehouse_id), quantity>>))
         /\ UNCHANGED <<lager, produkte, next_oid>>

(***************************************************************************)
(* InventoryService.remove_product                                         *)
(***************************************************************************)
remove_product_raises(entry) ==
    IF ~Truthy(entry) THEN <<"KeyError", "eintrag">> ELSE OK

remove_product_write(inv, entry) == db_delete(inv, entry._id)

remove_product(warehouse_id, product_id, performed_by) ==
    \E entry \in find_inventory_entry(inventar, warehouse_id, product_id) :
      \/ Raised(remove_product_raises(entry))
      \/ /\ remove_product_raises(entry) = OK
         /\ inventar' = remove_product_write(inventar, entry)
         /\ Emit(Event("inventar", "stock_remove", <<warehouse_id, product_id>>, performed_by,
                       <<ProductName(product_id), WarehouseName(warehouse_id)>>))
         /\ UNCHANGED <<lager, produkte, next_oid>>

(***************************************************************************)
(* InventoryService.remove_stock                                           *)
(***************************************************************************)
\* a slip: the comparison of quantity and stock level is turned around
remove_stock_raises_swapped(quantity, entry) ==
    IF quantity <= 0 THEN <<"ValueError", "menge">>
    ELSE IF ~Truthy(entry) THEN <<"KeyError", "eintrag">>
    ELSE IF entry.menge > quantity THEN <<"ValueError", "unzureichend">>
    ELSE OK

\* a slip: the stock level is not compared with the quantity
remove_stock_raises_unchecked(quantity, entry) ==
    IF quantity <= 0 THEN <<"ValueError", "menge">>
    ELSE IF ~Truthy(entry) THEN <<"KeyError", "eintrag">>
    ELSE OK

remove_stock_raises(quantity, entry) ==
    IF quantity <= 0 THEN <<"ValueError", "menge">>
    ELSE IF ~Truthy(entry) THEN <<"KeyError", "eintrag">>
    ELSE IF quantity > entry.menge THEN <<"ValueError", "unzureichend">>
    ELSE OK

\* a slip: an emptied row is deleted, as move does with its source
remove_stock_write_delete_empty(inv, entry, quantity) ==
    IF entry.menge - quantity > 0
    THEN db_update(inv, entry._id, entry.menge - quantity)
    ELSE db_delete(inv, entry._id)

\* a slip: the quantity is taken off what the row holds at the time of the write
remove_stock_write_decrement(inv, entry, quantity) ==
    {IF e._id = entry._id THEN [e EXCEPT !.menge = e.menge - quantity] ELSE e : e \in inv}

remove_stock_write(inv, entry, quantity) ==
    LET current == entry.menge
        remaining_quantity == current - quantity
    IN  db_update(inv, entry._id, remaining_quantity)

remove_stock(warehouse_id, product_id, quantity, performed_by) ==
    \E entry \in find_inventory_entry(inventar, warehouse_id, product_id) :
      \/ Raised(remove_stock_raises(quantity, entry))
      \/ /\ remove_stock_raises(quantity, entry) = OK
         /\ inventar' = remove_stock_write(inventar, entry, quantity)
         /\ Emit(Event("inventar", "stock_out", <<warehouse_id, product_id>>, performed_by,
                       <<quantity, ProductName(product_id), WarehouseName(warehouse_id),
                         entry.menge - quantity>>))
         /\ UNCHANGED <<lager, produkte, next_oid>>

(***************************************************************************)
(* InventoryService.move_product                                           *)
(***************************************************************************)
\* a slip: the product is looked up before the two warehouses
move_product_raises_product_first(source_warehouse_id, target_warehouse_id, product_id, quantity, entry) ==
    IF quantity <= 0 THEN <<"ValueError", "menge">>
    ELSE IF ~Exists(produkte, product_id) THEN <<"KeyError", "produkt">>
    ELSE IF ~Exists(lager, source_warehouse_id) THEN <<"KeyError", "quelllager">>
    ELSE IF ~Exists(lager, target_warehouse_id) THEN <<"KeyError", "ziellager">>
    ELSE IF ~Truthy(entry) THEN <<"KeyError", "eintrag">>
    ELSE IF quantity > entry.menge THEN <<"ValueError", "unzureichend">>
    ELSE OK

move_product_raises(source_warehouse_id, target_warehouse_id, product_id, quantity, entry) ==
    IF quantity <= 0 THEN <<"ValueError", "menge">>
    ELSE IF ~Exists(lager, source_warehouse_id) THEN <<"KeyError", "quelllager">>
    ELSE IF ~Exists(lager, target_warehouse_id) THEN <<"KeyError", "ziellager">>
    ELSE IF ~Exists(produkte, product_id) THEN <<"KeyError", "produkt">>
    ELSE IF ~Truthy(entry) THEN <<"KeyError", "eintrag">>
    ELSE IF quantity > entry.menge THEN <<"ValueError", "unzureichend">>
    ELSE OK

\* a slip: an emptied source row is kept, as remove_stock does
move_source_write_keep_empty(inv, entry, quantity) ==
    db_update(inv, entry._id, entry.menge - quantity)

\* decrease in source
move_source_write(inv, entry, quantity) ==
    LET current == entry.menge
        remaining == current - quantity
    IN  IF remaining > 0
        THEN db_update(inv, entry._id, remaining)
        ELSE db_delete(inv, entry._id)

\* a slip: the moved quantity replaces the target's stock
move_target_write_overwrite(inv, target_entry, oid, target_warehouse_id, product_id, quantity) ==
    IF Truthy(target_entry)
    THEN db_update(inv, target_entry._id, quantity)
    ELSE db_insert(inv, oid, target_warehouse_id, product_id, quantity)

\* a slip: the quantity is added to what the target row holds at the time of the write
move_target_write_increment(inv, target_entry, oid, target_warehouse_id, product_id, quantity) ==
    IF Truthy(target_entry)
    THEN {IF e._id = target_entry._id THEN [e EXCEPT !.menge = e.menge + quantity] ELSE e :
            e \in inv}
    ELSE db_insert(inv, oid, target_warehouse_id, product_id, quantity)

\* increase or create in target
move_target_write(inv, target_entry, oid, target_warehouse_id, product_id, quantity) ==
    IF Truthy(target_entry)
    THEN db_update(inv, target_entry._id, target_entry.menge + quantity)
    ELSE db_insert(inv, oid, target_warehouse_id, product_id, quantity)

\* a slip: the target row is read before the source row is written
move_product_target_read_first(source_warehouse_id, target_warehouse_id, product_id, quantity) ==
    \E entry \in find_inventory_entry(inventar, source_warehouse_id, product_id) :
      \/ Raised(move_product_raises(source_warehouse_id, target_warehouse_id, product_id,
                                    quantity, entry))
      \/ /\ move_product_raises(source_warehouse_id, target_warehouse_id, product_id,
                                quantity, entry) = OK
         /\ \E target_entry \in
                find_inventory_entry(inventar, target_warehouse_id, product_id) :
              /\ inventar' = move_target_write(move_source_write(inventar, entry, quantity),
                                 target_entry, next_oid, target_warehouse_id, product_id,
                                 quantity)
              /\ next_oid' = IF Truthy(target_entry) THEN next_oid ELSE next_oid + 1
         /\ Emit(Event("inventar", "stock_move", <<product_id>>, "system",
                       <<quantity, ProductName(product_id),
                         WarehouseName(source_warehouse_id),
                         WarehouseName(target_warehouse_id)>>))
         /\ UNCHANGED <<lager, produkte>>

move_product(source_warehouse_id, target_warehouse_id, product_id, quantity) ==
    \E entry \in find_inventory_entry(inventar, source_warehouse_id, product_id) :
      \/ Raised(move_product_raises(source_warehouse_id, target_warehouse_id, product_id,
                                    quantity, entry))
      \/ /\ move_product_raises(source_warehouse_id, target_warehouse_id, product_id,
                                quantity, entry) = OK
         /\ LET drained == move_source_write(inventar, entry, quantity)
            IN  \E target_entry \in
                    find_inventory_entry(drained, target_warehouse_id, product_id) :
                  /\ inventar' = move_target_write(drained, target_entry, next_oid,
                                     target_warehouse_id, product_id, quantity)
                  /\ next_oid' = IF Truthy(target_entry) THEN next_oid ELSE next_oid + 1
         /\ Emit(Event("inventar", "stock_move", <<product_id>>, "system",
                       <<quantity, ProductName(product_id),
                         WarehouseName(source_warehouse_id),
                         WarehouseName(target_warehouse_id)>>))
         /\ UNCHANGED <<lager, produkte>>

(***************************************************************************)
(* WarehouseService                                                        *)
(***************************************************************************)
create_warehouse_raises(warehouse_name, max_slots) ==
    IF Strip(warehouse_name) = <<>> THEN <<"ValueError", "lagername">>
    ELSE IF max_slots <= 0 THEN <<"ValueError", "max_plaetze">>
    ELSE OK

create_warehouse(warehouse_name, address, max_slots) ==
    \/ Raised(create_warehouse_raises(warehouse_name, max_slots))
    \/ /\ create_warehouse_raises(warehouse_name, max_slots) = OK
       /\ lager' = With(lager, next_oid,
                        [lagername |-> Strip(warehouse_name), adresse |-> Strip(address),
                         max_plaetze |-> max_slots])
       /\ next_oid' = next_oid + 1
       /\ Emit(Event("lager", "create", <<next_oid>>, Absent, <<Strip(warehouse_name)>>))
       /\ UNCHANGED <<produkte, inventar>>

\* a slip: only the rows that hold stock are counted, as the statistics report does
current_product_count_stocked(inv, warehouse_id) ==
    Cardinality({e.produkt_id : e \in {r \in find_inventory_by_warehouse(inv, warehouse_id) :
                                          r.produkt_id # NoSuchId /\ r.menge > 0}})

\* distinct products currently stored in this warehouse
current_product_count(inv, warehouse_id) ==
    Cardinality({e.produkt_id : e \in {r \in find_inventory_by_warehouse(inv, warehouse_id) :
                                          r.produkt_id # NoSuchId}})

\* a slip: a capacity equal to the number of products is rejected too
max_plaetze_rejected_le(mp, product_count) == mp <= product_count

\* the guard on a new max_plaetze
max_plaetze_rejected(mp, product_count) == mp < product_count

update_warehouse_raises(warehouse_id, data) ==
    IF ~Exists(lager, warehouse_id) THEN <<"KeyError", "lager">>
    ELSE IF "lagername" \in DOMAIN data /\ Strip(data.lagername) = <<>>
    THEN <<"ValueError", "lagername">>
    ELSE IF "max_plaetze" \in DOMAIN data /\ data.max_plaetze <= 0
    THEN <<"ValueError", "max_plaetze">>
    ELSE IF "max_plaetze" \in DOMAIN data
            /\ max_plaetze_rejected(data.max_plaetze,
                                    current_product_count(inventar, warehouse_id))
    THEN <<"ValueError", "belegt">>
    ELSE OK

update_warehouse_allowed(data) ==
    [k \in DOMAIN data \cap {"lagername", "adresse", "max_plaetze"} |->
        IF k = "max_plaetze" THEN data[k] ELSE Strip(data[k])]

update_warehouse(warehouse_id, data) ==
    \/ Raised(update_warehouse_raises(warehouse_id, data))
    \/ /\ update_warehouse_raises(warehouse_id, data) = OK
       /\ lager' = [lager EXCEPT ![warehouse_id] = Merge(@, update_warehouse_allowed(data))]
       /\ Emit(Event("lager", "update", <<warehouse_id>>, Absent,
               <<lager'[warehouse_id].lagername>>))
       /\ UNCHANGED <<produkte, inventar, next_oid>>

delete_warehouse_raises(warehouse_id) ==
    IF ~Exists(lager, warehouse_id) THEN <<"KeyError", "lager">> ELSE OK

delete_warehouse(warehouse_id) ==
    \/ Raised(delete_warehouse_raises(warehouse_id))
    \/ /\ delete_warehouse_raises(warehouse_id) = OK
       /\ lager' = Without(lager, warehouse_id)
       /\ Emit(Event("lager", "delete", <<warehouse_id>>, Absent,
               <<lager[warehouse_id].lagername>>))
       /\ UNCHANGED <<produkte, inventar, next_oid>>

(***************************************************************************)
(* ProductService                                                          *)
(***************************************************************************)
create_product_raises(name, weight, price) ==
    IF Strip(name) = <<>> THEN <<"ValueError", "name">>
    ELSE IF weight < 0 THEN <<"ValueError", "gewicht">>
    ELSE IF price < 0 THEN <<"ValueError", "preis">>
    ELSE OK

create_product(name, description, weight, price) ==
    \/ Raised(create_product_raises(name, weight, price))
    \/ /\ create_product_raises(name, weight, price) = OK
       /\ produkte' = With(produkte, next_oid,
                           [name |-> Strip(name), beschreibung |-> Strip(description),
                            gewicht |-> weight, preis |-> price])
       /\ next_oid' = next_oid + 1
       /\ Emit(Event("produkt", "create", <<next_oid>>, Absent, <<Strip(name)>>))
       /\ UNCHANGED <<lager, inventar>>

\* a slip: the name is tested before it is trimmed
update_product_raises_untrimmed(product_id, data) ==
    IF ~Exists(produkte, product_id) THEN <<"KeyError", "produkt">>
    ELSE IF "name" \in DOMAIN data /\ data.name = <<>>
    THEN <<"ValueError", "name">>
    ELSE IF "gewicht" \in DOMAIN data /\ data.gewicht < 0
    THEN <<"ValueError", "gewicht">>
    ELSE OK

update_product_raises(product_id, data) ==
    IF ~Exists(produkte, product_id) THEN <<"KeyError", "produkt">>
    ELSE IF "name" \in DOMAIN data /\ Strip(data.name) = <<>>
    THEN <<"ValueError", "name">>
    ELSE IF "gewicht" \in DOMAIN data /\ data.gewicht < 0
    THEN <<"ValueError", "gewicht">>
    ELSE OK

\* a slip: every field the caller passes is stored
update_product_allowed_all(data) ==
    [k \in DOMAIN data |->
        IF k \in {"name", "beschreibung"} THEN Strip(data[k]) ELSE data[k]]

update_product_allowed(data) ==
    [k \in DOMAIN data \cap {"name", "beschreibung", "gewicht"} |->
        IF k = "gewicht" THEN data[k] ELSE Strip(data[k])]

update_product(product_id, data) ==
    \/ Raised(update_product_raises(product_id, data))
    \/ /\ update_product_raises(product_id, data) = OK
       /\ produkte' = [produkte EXCEPT ![product_id] = Merge(@, update_product_allowed(data))]
       /\ Emit(Event("produkt", "update", <<product_id>>, Absent,
               <<produkte'[product_id].name>>))
       /\ UNCHANGED <<lager, inventar, next_oid>>

delete_product_raises(product_id) ==
    IF ~Exists(produkte, product_id) THEN <<"KeyError", "produkt">> ELSE OK

\* a slip: the rows of the product are deleted with it
delete_product_cascade(product_id) ==
    \/ Raised(delete_product_raises(product_id))
    \/ /\ delete_product_raises(product_id) = OK
       /\ produkte' = Without(produkte, product_id)
       /\ inventar' = {e \in inventar : e.produkt_id # product_id}
       /\ Emit(Event("produkt", "delete", <<product_id>>, Absent,
               <<produkte[product_id].name>>))
       /\ UNCHANGED <<lager, next_oid>>

delete_product(product_id) ==
    \/ Raised(delete_product_raises(product_id))
    \/ /\ delete_product_raises(product_id) = OK
       /\ produkte' = Without(produkte, product_id)
       /\ Emit(Event("produkt", "delete", <<product_id>>, Absent,
               <<produkte[product_id].name>>))
       /\ UNCHANGED <<lager, inventar, next_oid>>

(***************************************************************************)
(* The reads of the three services.  What a read returns is the value of   *)
(* its *_returns operator.                                                 *)
(***************************************************************************)
get_product_returns(product_id) ==
    IF Exists(produkte, product_id) THEN {produkte[product_id]} ELSE {}

get_product(product_id) == UNCHANGED vars

list_products_returns == {produkte[i] : i \in DOMAIN produkte}

list_products == UNCHANGED vars

get_warehouse_returns(warehouse_id) ==
    IF Exists(lager, warehouse_id) THEN {lager[warehouse_id]} ELSE {}

get_warehouse(warehouse_id) == UNCHANGED vars

list_warehouses_returns == {lager[i] : i \in DOMAIN lager}

list_warehouses == UNCHANGED vars

\* a slip: the weight is read where the price is meant
price_of_gewicht(product_id) ==
    IF Exists(produkte, product_id) /\ "gewicht" \in DOMAIN produkte[product_id]
    THEN produkte[product_id].gewicht
    ELSE 0

\* the price of a row's product, 0 for a product that is gone or carries no preis
price_of(product_id) ==
    IF Exists(produkte, product_id) /\ "preis" \in DOMAIN produkte[product_id]
    THEN produkte[product_id].preis
    ELSE 0

RECURSIVE total_of(_)
total_of(inventory) ==
    IF inventory = {} THEN 0
    ELSE LET entry == CHOOSE e \in inventory : TRUE
         IN  price_of(entry.produkt_id) * entry.menge + total_of(inventory \ {entry})

get_total_inventory_value_returns == total_of(inventar)

get_total_inventory_value == UNCHANGED vars

list_inventory_raises(warehouse_id) ==
    IF ~Exists(lager, warehouse_id) THEN <<"KeyError", "lager">> ELSE OK

\* a slip: a row whose product is gone is left out of the listing
list_inventory_returns_known(warehouse_id) ==
    { [_id |-> e._id, lager_id |-> warehouse_id, produkt_id |-> e.produkt_id,
       produkt_name |-> produkte[e.produkt_id].name,
       produkt_beschreibung |-> produkte[e.produkt_id].beschreibung,
       menge |-> e.menge] :
      e \in {r \in find_inventory_by_warehouse(inventar, warehouse_id) :
               Exists(produkte, r.produkt_id)} }

list_inventory_returns(warehouse_id) ==
    { [_id |-> e._id, lager_id |-> warehouse_id, produkt_id |-> e.produkt_id,
       produkt_name |-> IF Exists(produkte, e.produkt_id)
                        THEN produkte[e.produkt_id].name ELSE <<"?">>,
       produkt_beschreibung |-> IF Exists(produkte, e.produkt_id)
                                THEN produkte[e.produkt_id].beschreibung ELSE <<>>,
       menge |-> e.menge] : e \in find_inventory_by_warehouse(inventar, warehouse_id) }

\* a slip: a successful listing is logged as an event
list_inventory_logged(warehouse_id) ==
    \/ Raised(list_inventory_raises(warehouse_id))
    \/ /\ list_inventory_raises(warehouse_id) = OK
       /\ Emit(Event("inventar", "list", <<warehouse_id>>, Absent, <<>>))
       /\ UNCHANGED <<lager, produkte, inventar, next_oid>>

list_inventory(warehouse_id) ==
    \/ Raised(list_inventory_raises(warehouse_id))
    \/ /\ list_inventory_raises(warehouse_id) = OK
       /\ UNCHANGED vars

(***************************************************************************)
(* InventoryReport.inventory_report (reports/inventory_report.py).  Text   *)
(* is compared as Python compares str: character by character by code     *)
(* point, a proper prefix coming first.                                    *)
(***************************************************************************)
\* ord(c) of the characters that names are made of
ord == (" " :> 32) @@ ("?" :> 63) @@ ("B" :> 66) @@ ("K" :> 75) @@ ("S" :> 83)

\* a < b on str
RECURSIVE str_lt(_, _)
str_lt(a, b) ==
    IF a = <<>> THEN b # <<>>
    ELSE IF b = <<>> THEN FALSE
    ELSE IF Head(a) = Head(b) THEN str_lt(Tail(a), Tail(b))
    ELSE ord[Head(a)] < ord[Head(b)]

\* the sort key (row["produkt_name"], row["produkt_id"]) of x is below that of y;
\* ObjectIds are of one length, so their text is ordered as the numbers are
key_lt(x, y) ==
    \/ str_lt(x.produkt_name, y.produkt_name)
    \/ x.produkt_name = y.produkt_name /\ x.produkt_id < y.produkt_id

\* list.sort(key=...): ascending and stable
RECURSIVE sort(_)
sort(result) ==
    IF result = <<>> THEN <<>>
    ELSE LET i == CHOOSE k \in 1..Len(result) :
                     /\ \A j \in 1..(k - 1) : key_lt(result[k], result[j])
                     /\ \A j \in (k + 1)..Len(result) : ~key_lt(result[j], result[k])
         IN  <<result[i]>> \o sort(SubSeq(result, 1, i - 1) \o
                                   SubSeq(result, i + 1, Len(result)))

inventory_report_raises(warehouse_id) ==
    IF ~Exists(lager, warehouse_id) THEN <<"KeyError", "lager">> ELSE OK

\* the rows of the report before they are sorted, in the order the entries were read
report_rows(warehouse_id) ==
    LET entries == find_all(find_inventory_by_warehouse(inventar, warehouse_id))
    IN  [i \in 1..Len(entries) |->
            [lager_id |-> warehouse_id,
             lagername |-> lager[warehouse_id].lagername,
             produkt_id |-> entries[i].produkt_id,
             produkt_name |-> IF Exists(produkte, entries[i].produkt_id)
                              THEN produkte[entries[i].produkt_id].name ELSE <<"?">>,
             produkt_beschreibung |-> IF Exists(produkte, entries[i].produkt_id)
                                      THEN produkte[entries[i].produkt_id].beschreibung
                                      ELSE <<>>,
             menge |-> entries[i].menge]]

\* a slip: the rows are returned in the order the entries were read
inventory_report_returns_unsorted(warehouse_id) == report_rows(warehouse_id)

inventory_report_returns(warehouse_id) == sort(report_rows(warehouse_id))

inventory_report(warehouse_id) ==
    \/ Raised(inventory_report_raises(warehouse_id))
    \/ /\ inventory_report_raises(warehouse_id) = OK
       /\ UNCHANGED vars

(***************************************************************************)
(* The database after db/init/seed.py, scaled to two warehouses and two    *)
(* products: the seed writes warehouses, products and stock, and no event. *)
(* Every warehouse stocks at least 60 % of the products, each with a       *)
(* positive quantity.                                                      *)
(***************************************************************************)
SeedLager ==
    (1 :> [lagername |-> <<"H">>, adresse |-> <<"W">>, max_plaetze |-> 2]) @@
    (2 :> [lagername |-> <<"N">>, adresse |-> <<"G">>, max_plaetze |-> 2])

SeedProdukte ==
    (3 :> [name |-> <<"B">>, beschreibung |-> <<"E">>, gewicht |-> 3, kategorie |-> <<"B">>]) @@
    (4 :> [name |-> <<"S">>, beschreibung |-> <<"H">>, gewicht |-> 10, kategorie |-> <<"S">>])

SeedInventar ==
    { [_id |-> 5, lager_id |-> 1, produkt_id |-> 3, menge |-> 1],
      [_id |-> 6, lager_id |-> 2, produkt_id |-> 3, menge |-> 1],
      [_id |-> 7, lager_id |-> 2, produkt_id |-> 4, menge |-> 2] }

(***************************************************************************)
(* Requests in flight.  The web server handles each request in a thread of *)
(* its own; a request holds what its call has read so far and the place in *)
(* the call it has reached.                                                *)
(***************************************************************************)
Threads == {1, 2}

\* a request of the inventory service holds no product or warehouse document
NoData == [name |-> <<>>]

Request(pc, warehouse_id, target_warehouse_id, product_id, quantity, performed_by, entry) ==
    [pc |-> pc, at |-> "", warehouse_id |-> warehouse_id,
     target_warehouse_id |-> target_warehouse_id, product_id |-> product_id,
     quantity |-> quantity, performed_by |-> performed_by, entry |-> entry,
     data |-> NoData]

Idle == Request("idle", NoSuchId, NoSuchId, NoSuchId, 0, "", None)

\* each thread handles one request in a run, and the first free thread takes it
StartOpen(th) ==
    /\ requests[th].pc = "idle"
    /\ \A other \in Threads : requests[other].pc = "idle" => th <= other

\* the request goes on to the next database call of its method
Goto(th, pc) == requests' = [requests EXCEPT ![th].pc = pc]

\* the method returns
Return(th) == requests' = [requests EXCEPT ![th] = [Idle EXCEPT !.pc = "returned"]]

(***************************************************************************)
(* Startup and the calls of a run.                                         *)
(***************************************************************************)
\* the application starts on a fresh database or on the seeded one
Init ==
    /\ events = <<>>
    /\ requests = [th \in Threads |-> Idle]
    /\ \/ /\ lager = <<>>
          /\ produkte = <<>>
          /\ inventar = {}
          /\ next_oid = 1
       \/ /\ lager = SeedLager
          /\ produkte = SeedProdukte
          /\ inventar = SeedInventar
          /\ next_oid = 8

\* the ids a caller may pass: every stored id, the ids that inventory rows still
\* carry after their warehouse or product was deleted, and one that resolves to nothing
LagerArgs == DOMAIN lager \cup {e.lager_id : e \in inventar} \cup {NoSuchId}
ProduktArgs == DOMAIN produkte \cup {e.produkt_id : e \in inventar} \cup {NoSuchId}
MengeArgs == -1..MaxMenge
Actors == {"system"}
PlaetzeArgs == -1..MaxPlaetze
Namen == {<<" ">>, <<" ", "K", " ">>}
ZahlArgs == {-1, 1}
\* the fields a caller passes to an update: some of the accepted ones, and fields
\* the services do not accept
LagerData ==
    {[max_plaetze |-> n] : n \in PlaetzeArgs} \cup
    {[lagername |-> <<" ", "M">>, adresse |-> <<"A", " ">>, kategorie |-> <<"X">>],
     [lagername |-> <<" ">>]}
ProduktData ==
    {[name |-> <<"K", " ">>, gewicht |-> 2, preis |-> 5],
     [beschreibung |-> <<"D", " ">>, kategorie |-> <<"X">>],
     [name |-> <<" ">>], [gewicht |-> -1], [preis |-> 5], [preis |-> -1]}

Next ==
    \/ \E w \in LagerArgs, p \in ProduktArgs, q \in MengeArgs, by \in Actors :
          Serial /\ add_product(w, p, q, by)
    \/ \E w \in LagerArgs, p \in ProduktArgs, q \in MengeArgs, by \in Actors :
          Serial /\ update_quantity(w, p, q, by)
    \/ \E w \in LagerArgs, p \in ProduktArgs, by \in Actors :
          Serial /\ remove_product(w, p, by)
    \/ \E w \in LagerArgs, p \in ProduktArgs, q \in MengeArgs, by \in Actors :
          Serial /\ remove_stock(w, p, q, by)
    \/ \E s \in LagerArgs, t \in LagerArgs, p \in ProduktArgs, q \in MengeArgs :
          Serial /\ move_product(s, t, p, q)
    \/ \E name \in Namen, n \in PlaetzeArgs :
          Serial /\ create_warehouse(name, <<"L", " ">>, n)
    \/ \E w \in LagerArgs, data \in LagerData :
          Serial /\ update_warehouse(w, data)
    \/ \E w \in LagerArgs :
          Serial /\ delete_warehouse(w)
    \/ \E name \in Namen, weight \in ZahlArgs, price \in ZahlArgs :
          Serial /\ create_product(name, <<" ">>, weight, price)
    \/ \E p \in ProduktArgs, data \in ProduktData :
          Serial /\ update_product(p, data)
    \/ \E p \in ProduktArgs :
          Serial /\ delete_product(p)
    \/ \E p \in ProduktArgs :
          Serial /\ get_product(p)
    \/ Serial /\ list_products
    \/ \E w \in LagerArgs :
          Serial /\ get_warehouse(w)
    \/ Serial /\ list_warehouses
    \/ Serial /\ get_total_inventory_value
    \/ \E w \in LagerArgs :
          Serial /\ list_inventory(w)
    \/ \E w \in LagerArgs :
          Serial /\ inventory_report(w)

Spec == Init /\ [][Next]_rvars

(***************************************************************************)
(* The calls that write an event, made by two callers of the inventory     *)
(* service: one names herself, the other leaves performed_by at its        *)
(* default.  Each of them makes one call of the inventory service in a     *)
(* run.                                                                    *)
(***************************************************************************)
ActorArgs == {"system", "anna"}

\* the caller has not made her call yet
ActorOpen(performed_by) ==
    \A i \in 1..Len(events) : events[i].performed_by # performed_by

NextActors ==
    \/ \E w \in LagerArgs, p \in ProduktArgs, q \in MengeArgs, by \in ActorArgs :
          Serial /\ ActorOpen(by) /\ add_product(w, p, q, by)
    \/ \E w \in LagerArgs, p \in ProduktArgs, q \in MengeArgs, by \in ActorArgs :
          Serial /\ ActorOpen(by) /\ update_quantity(w, p, q, by)
    \/ \E w \in LagerArgs, p \in ProduktArgs, by \in ActorArgs :
          Serial /\ ActorOpen(by) /\ remove_product(w, p, by)
    \/ \E w \in LagerArgs, p \in ProduktArgs, q \in MengeArgs, by \in ActorArgs :
          Serial /\ ActorOpen(by) /\ remove_stock(w, p, q, by)
    \/ \E s \in LagerArgs, t \in LagerArgs, p \in ProduktArgs, q \in MengeArgs :
          Serial /\ ActorOpen("system") /\ move_product(s, t, p, q)
    \/ \E name \in Namen, n \in PlaetzeArgs :
          Serial /\ create_warehouse(name, <<"L", " ">>, n)
    \/ \E w \in LagerArgs, data \in LagerData :
          Serial /\ update_warehouse(w, data)
    \/ \E w \in LagerArgs :
          Serial /\ delete_warehouse(w)
    \/ \E name \in Namen, weight \in ZahlArgs, price \in ZahlArgs :
          Serial /\ create_product(name, <<" ">>, weight, price)
    \/ \E p \in ProduktArgs, data \in ProduktData :
          Serial /\ update_product(p, data)
    \/ \E p \in ProduktArgs :
          Serial /\ delete_product(p)

SpecActors == Init /\ [][NextActors]_rvars

(***************************************************************************)
(* The calls that write, one database call at a time.                      *)
(***************************************************************************)
\* add_product: the checks and the read of the row
add_product_begin(th, warehouse_id, product_id, quantity, performed_by) ==
    /\ StartOpen(th)
    /\ \/ Raised(add_product_raises(warehouse_id, product_id, quantity))
          /\ UNCHANGED requests
       \/ /\ add_product_raises(warehouse_id, product_id, quantity) = OK
          /\ \E existing \in find_inventory_entry(inventar, warehouse_id, product_id) :
               requests' = [requests EXCEPT ![th] =
                               Request("add_write", warehouse_id, NoSuchId, product_id,
                                       quantity, performed_by, existing)]
          /\ UNCHANGED vars

\* add_product: the update of the row that was read, or the insert
add_product_write(th) ==
    LET r == requests[th]
    IN  /\ r.pc = "add_write"
        /\ inventar' = add_write(inventar, r.entry, next_oid, r.warehouse_id, r.product_id,
                                 r.quantity)
        /\ next_oid' = IF Truthy(r.entry) THEN next_oid ELSE next_oid + 1
        /\ Goto(th, "add_event")
        /\ UNCHANGED <<lager, produkte, events>>

\* add_product: the event
add_product_event(th) ==
    LET r == requests[th]
    IN  /\ r.pc = "add_event"
        /\ Emit(Event("inventar", "stock_add", <<r.warehouse_id, r.product_id>>,
                      r.performed_by,
                      <<r.quantity, ProductName(r.product_id), WarehouseName(r.warehouse_id)>>))
        /\ Return(th)
        /\ UNCHANGED <<lager, produkte, inventar, next_oid>>

\* remove_stock: the check of the quantity, the read of the row, the checks on it
remove_stock_begin(th, warehouse_id, product_id, quantity, performed_by) ==
    /\ StartOpen(th)
    /\ \E entry \in find_inventory_entry(inventar, warehouse_id, product_id) :
         \/ Raised(remove_stock_raises(quantity, entry))
            /\ UNCHANGED requests
         \/ /\ remove_stock_raises(quantity, entry) = OK
            /\ requests' = [requests EXCEPT ![th] =
                               Request("out_write", warehouse_id, NoSuchId, product_id,
                                       quantity, performed_by, entry)]
            /\ UNCHANGED vars

\* remove_stock: the update of the row that was read
remove_stock_update(th) ==
    LET r == requests[th]
    IN  /\ r.pc = "out_write"
        /\ inventar' = remove_stock_write(inventar, r.entry, r.quantity)
        /\ Goto(th, "out_event")
        /\ UNCHANGED <<lager, produkte, events, next_oid>>

\* remove_stock: the event
remove_stock_event(th) ==
    LET r == requests[th]
    IN  /\ r.pc = "out_event"
        /\ Emit(Event("inventar", "stock_out", <<r.warehouse_id, r.product_id>>,
                      r.performed_by,
                      <<r.quantity, ProductName(r.product_id), WarehouseName(r.warehouse_id),
                        r.entry.menge - r.quantity>>))
        /\ Return(th)
        /\ UNCHANGED <<lager, produkte, inventar, next_oid>>

\* update_quantity: the check of the quantity, the read of the row, the check on it
update_quantity_begin(th, warehouse_id, product_id, quantity, performed_by) ==
    /\ StartOpen(th)
    /\ \E entry \in find_inventory_entry(inventar, warehouse_id, product_id) :
         \/ Raised(update_quantity_raises(quantity, entry))
            /\ UNCHANGED requests
         \/ /\ update_quantity_raises(quantity, entry) = OK
            /\ requests' = [requests EXCEPT ![th] =
                               Request("set_write", warehouse_id, NoSuchId, product_id,
                                       quantity, performed_by, entry)]
            /\ UNCHANGED vars

\* update_quantity: the update of the row that was read
update_quantity_update(th) ==
    LET r == requests[th]
    IN  /\ r.pc = "set_write"
        /\ inventar' = update_quantity_write(inventar, r.entry, r.quantity)
        /\ Goto(th, "set_event")
        /\ UNCHANGED <<lager, produkte, events, next_oid>>

\* update_quantity: the event
update_quantity_event(th) ==
    LET r == requests[th]
    IN  /\ r.pc = "set_event"
        /\ Emit(Event("inventar", "stock_update", <<r.warehouse_id, r.product_id>>,
                      r.performed_by,
                      <<ProductName(r.product_id), WarehouseName(r.warehouse_id),
                        r.quantity>>))
        /\ Return(th)
        /\ UNCHANGED <<lager, produkte, inventar, next_oid>>

\* move_product: the checks and the read of the source row
move_product_begin(th, source_warehouse_id, target_warehouse_id, product_id, quantity) ==
    /\ StartOpen(th)
    /\ \E entry \in find_inventory_entry(inventar, source_warehouse_id, product_id) :
         \/ Raised(move_product_raises(source_warehouse_id, target_warehouse_id, product_id,
                                       quantity, entry))
            /\ UNCHANGED requests
         \/ /\ move_product_raises(source_warehouse_id, target_warehouse_id, product_id,
                                   quantity, entry) = OK
            /\ requests' = [requests EXCEPT ![th] =
                               Request("move_source", source_warehouse_id,
                                       target_warehouse_id, product_id, quantity, "system",
                                       entry)]
            /\ UNCHANGED vars

\* a slip: the event is written with the first write of the call, before its second
move_product_source_logged(th) ==
    LET r == requests[th]
    IN  /\ r.pc = "move_source"
        /\ inventar' = move_source_write(inventar, r.entry, r.quantity)
        /\ Emit(Event("inventar", "stock_move", <<r.product_id>>, "system",
                      <<r.quantity, ProductName(r.product_id),
                        WarehouseName(r.warehouse_id),
                        WarehouseName(r.target_warehouse_id)>>))
        /\ Goto(th, "move_target_read")
        /\ UNCHANGED <<lager, produkte, next_oid>>

\* move_product: decrease in source
move_product_source(th) ==
    LET r == requests[th]
    IN  /\ r.pc = "move_source"
        /\ inventar' = move_source_write(inventar, r.entry, r.quantity)
        /\ Goto(th, "move_target_read")
        /\ UNCHANGED <<lager, produkte, events, next_oid>>

\* move_product: the read of the target row
move_product_target_read(th) ==
    LET r == requests[th]
    IN  /\ r.pc = "move_target_read"
        /\ \E target_entry \in
                find_inventory_entry(inventar, r.target_warehouse_id, r.product_id) :
              requests' = [requests EXCEPT ![th].pc = "move_target_write",
                                           ![th].entry = target_entry]
        /\ UNCHANGED vars

\* move_product: increase or create in target
move_product_target(th) ==
    LET r == requests[th]
    IN  /\ r.pc = "move_target_write"
        /\ inventar' = move_target_write(inventar, r.entry, next_oid, r.target_warehouse_id,
                                         r.product_id, r.quantity)
        /\ next_oid' = IF Truthy(r.entry) THEN next_oid ELSE next_oid + 1
        /\ Goto(th, "move_event")
        /\ UNCHANGED <<lager, produkte, events>>

\* move_product: the event
move_product_event(th) ==
    LET r == requests[th]
    IN  /\ r.pc = "move_event"
        /\ Emit(Event("inventar", "stock_move", <<r.product_id>>, "system",
                      <<r.quantity, ProductName(r.product_id),
                        WarehouseName(r.warehouse_id),
                        WarehouseName(r.target_warehouse_id)>>))
        /\ Return(th)
        /\ UNCHANGED <<lager, produkte, inventar, next_oid>>

\* remove_product: the read of the row and the check on it
remove_product_begin(th, warehouse_id, product_id, performed_by) ==
    /\ StartOpen(th)
    /\ \E entry \in find_inventory_entry(inventar, warehouse_id, product_id) :
         \/ Raised(remove_product_raises(entry))
            /\ UNCHANGED requests
         \/ /\ remove_product_raises(entry) = OK
            /\ requests' = [requests EXCEPT ![th] =
                               Request("remove_delete", warehouse_id, NoSuchId, product_id,
                                       0, performed_by, entry)]
            /\ UNCHANGED vars

\* remove_product: the delete of the row that was read
remove_product_delete(th) ==
    LET r == requests[th]
    IN  /\ r.pc = "remove_delete"
        /\ inventar' = remove_product_write(inventar, r.entry)
        /\ Goto(th, "remove_event")
        /\ UNCHANGED <<lager, produkte, events, next_oid>>

\* remove_product: the event
remove_product_event(th) ==
    LET r == requests[th]
    IN  /\ r.pc = "remove_event"
        /\ Emit(Event("inventar", "stock_remove", <<r.warehouse_id, r.product_id>>,
                      r.performed_by,
                      <<ProductName(r.product_id), WarehouseName(r.warehouse_id)>>))
        /\ Return(th)
        /\ UNCHANGED <<lager, produkte, inventar, next_oid>>

\* a catalog request: the document or the fields it is about to write
Catalog(pc, warehouse_id, product_id, data) ==
    [Request(pc, warehouse_id, NoSuchId, product_id, 0, Absent, None) EXCEPT !.data = data]

\* create_warehouse: the checks
create_warehouse_begin(th, warehouse_name, address, max_slots) ==
    /\ StartOpen(th)
    /\ \/ Raised(create_warehouse_raises(warehouse_name, max_slots))
          /\ UNCHANGED requests
       \/ /\ create_warehouse_raises(warehouse_name, max_slots) = OK
          /\ requests' = [requests EXCEPT ![th] =
                             Catalog("lager_insert", NoSuchId, NoSuchId,
                                     [lagername |-> Strip(warehouse_name),
                                      adresse |-> Strip(address),
                                      max_plaetze |-> max_slots])]
          /\ UNCHANGED vars

\* create_warehouse: the insert
create_warehouse_insert(th) ==
    LET r == requests[th]
    IN  /\ r.pc = "lager_insert"
        /\ lager' = With(lager, next_oid, r.data)
        /\ next_oid' = next_oid + 1
        /\ requests' = [requests EXCEPT ![th].pc = "lager_insert_event",
                                        ![th].warehouse_id = next_oid]
        /\ UNCHANGED <<produkte, inventar, events>>

\* create_warehouse: the event
create_warehouse_event(th) ==
    LET r == requests[th]
    IN  /\ r.pc = "lager_insert_event"
        /\ Emit(Event("lager", "create", <<r.warehouse_id>>, Absent, <<r.data.lagername>>))
        /\ Return(th)
        /\ UNCHANGED <<lager, produkte, inventar, next_oid>>

\* update_warehouse: the lookup and the checks
update_warehouse_begin(th, warehouse_id, data) ==
    /\ StartOpen(th)
    /\ \/ Raised(update_warehouse_raises(warehouse_id, data))
          /\ UNCHANGED requests
       \/ /\ update_warehouse_raises(warehouse_id, data) = OK
          /\ requests' = [requests EXCEPT ![th] =
                             Catalog("lager_update", warehouse_id, NoSuchId,
                                     update_warehouse_allowed(data))]
          /\ UNCHANGED vars

\* update_warehouse: the update
update_warehouse_update(th) ==
    LET r == requests[th]
    IN  /\ r.pc = "lager_update"
        /\ lager' = db_set(lager, r.warehouse_id, r.data)
        /\ Goto(th, "lager_update_event")
        /\ UNCHANGED <<produkte, inventar, events, next_oid>>

\* update_warehouse: the lookup of the updated document and the event
update_warehouse_event(th) ==
    LET r == requests[th]
    IN  /\ r.pc = "lager_update_event"
        /\ Emit(Event("lager", "update", <<r.warehouse_id>>, Absent,
                      <<WarehouseName(r.warehouse_id)>>))
        /\ Return(th)
        /\ UNCHANGED <<lager, produkte, inventar, next_oid>>

\* delete_warehouse: the lookup
delete_warehouse_begin(th, warehouse_id) ==
    /\ StartOpen(th)
    /\ \/ Raised(delete_warehouse_raises(warehouse_id))
          /\ UNCHANGED requests
       \/ /\ delete_warehouse_raises(warehouse_id) = OK
          /\ requests' = [requests EXCEPT ![th] =
                             Catalog("lager_delete", warehouse_id, NoSuchId,
                                     lager[warehouse_id])]
          /\ UNCHANGED vars

\* delete_warehouse: the delete
delete_warehouse_delete(th) ==
    LET r == requests[th]
    IN  /\ r.pc = "lager_delete"
        /\ lager' = Without(lager, r.warehouse_id)
        /\ Goto(th, "lager_delete_event")
        /\ UNCHANGED <<produkte, inventar, events, next_oid>>

\* delete_warehouse: the event
delete_warehouse_event(th) ==
    LET r == requests[th]
    IN  /\ r.pc = "lager_delete_event"
        /\ Emit(Event("lager", "delete", <<r.warehouse_id>>, Absent, <<r.data.lagername>>))
        /\ Return(th)
        /\ UNCHANGED <<lager, produkte, inventar, next_oid>>

\* create_product: the checks
create_product_begin(th, name, description, weight, price) ==
    /\ StartOpen(th)
    /\ \/ Raised(create_product_raises(name, weight, price))
          /\ UNCHANGED requests
       \/ /\ create_product_raises(name, weight, price) = OK
          /\ requests' = [requests EXCEPT ![th] =
                             Catalog("produkt_insert", NoSuchId, NoSuchId,
                                     [name |-> Strip(name),
                                      beschreibung |-> Strip(description),
                                      gewicht |-> weight, preis |-> price])]
          /\ UNCHANGED vars

\* create_product: the insert
create_product_insert(th) ==
    LET r == requests[th]
    IN  /\ r.pc = "produkt_insert"
        /\ produkte' = With(produkte, next_oid, r.data)
        /\ next_oid' = next_oid + 1
        /\ requests' = [requests EXCEPT ![th].pc = "produkt_insert_event",
                                        ![th].product_id = next_oid]
        /\ UNCHANGED <<lager, inventar, events>>

\* create_product: the event
create_product_event(th) ==
    LET r == requests[th]
    IN  /\ r.pc = "produkt_insert_event"
        /\ Emit(Event("produkt", "create", <<r.product_id>>, Absent, <<r.data.name>>))
        /\ Return(th)
        /\ UNCHANGED <<lager, produkte, inventar, next_oid>>

\* update_product: the lookup and the checks
update_product_begin(th, product_id, data) ==
    /\ StartOpen(th)
    /\ \/ Raised(update_product_raises(product_id, data))
          /\ UNCHANGED requests
       \/ /\ update_product_raises(product_id, data) = OK
          /\ requests' = [requests EXCEPT ![th] =
                             Catalog("produkt_update", NoSuchId, product_id,
                                     update_product_allowed(data))]
          /\ UNCHANGED vars

\* update_product: the update
update_product_update(th) ==
    LET r == requests[th]
    IN  /\ r.pc = "produkt_update"
        /\ produkte' = db_set(produkte, r.product_id, r.data)
        /\ Goto(th, "produkt_update_event")
        /\ UNCHANGED <<lager, inventar, events, next_oid>>

\* update_product: the lookup of the updated document and the event
update_product_event(th) ==
    LET r == requests[th]
    IN  /\ r.pc = "produkt_update_event"
        /\ Emit(Event("produkt", "update", <<r.product_id>>, Absent,
                      <<ProductName(r.product_id)>>))
        /\ Return(th)
        /\ UNCHANGED <<lager, produkte, inventar, next_oid>>

\* delete_product: the lookup
delete_product_begin(th, product_id) ==
    /\ StartOpen(th)
    /\ \/ Raised(delete_product_raises(product_id))
          /\ UNCHANGED requests
       \/ /\ delete_product_raises(product_id) = OK
          /\ requests' = [requests EXCEPT ![th] =
                             Catalog("produkt_delete", NoSuchId, product_id,
                                     produkte[product_id])]
          /\ UNCHANGED vars

\* delete_product: the delete
delete_product_delete(th) ==
    LET r == requests[th]
    IN  /\ r.pc = "produkt_delete"
        /\ produkte' = Without(produkte, r.product_id)
        /\ Goto(th, "produkt_delete_event")
        /\ UNCHANGED <<lager, inventar, events, next_oid>>

\* delete_product: the event
delete_product_event(th) ==
    LET r == requests[th]
    IN  /\ r.pc = "produkt_delete_event"
        /\ Emit(Event("produkt", "delete", <<r.product_id>>, Absent, <<r.data.name>>))
        /\ Return(th)
        /\ UNCHANGED <<lager, produkte, inventar, next_oid>>

\* the request ends where it is: the process dies, or a database call fails
Stop(th) ==
    /\ requests[th].pc \notin {"idle", "returned", "stopped"}
    /\ requests' = [requests EXCEPT ![th] = [Idle EXCEPT !.pc = "stopped",
                                                         !.at = requests[th].pc]]
    /\ UNCHANGED vars

NextRace ==
    \/ \E th \in Threads, w \in LagerArgs, p \in ProduktArgs, q \in MengeArgs, by \in Actors :
          add_product_begin(th, w, p, q, by)
    \/ \E th \in Threads : add_product_write(th)
    \/ \E th \in Threads : add_product_event(th)
    \/ \E th \in Threads, w \in LagerArgs, p \in ProduktArgs, q \in MengeArgs, by \in Actors :
          remove_stock_begin(th, w, p, q, by)
    \/ \E th \in Threads : remove_stock_update(th)
    \/ \E th \in Threads : remove_stock_event(th)
    \/ \E th \in Threads, w \in LagerArgs, p \in ProduktArgs, q \in MengeArgs, by \in Actors :
          update_quantity_begin(th, w, p, q, by)
    \/ \E th \in Threads : update_quantity_update(th)
    \/ \E th \in Threads : update_quantity_event(th)
    \/ \E th \in Threads, s \in LagerArgs, t \in LagerArgs, p \in ProduktArgs, q \in MengeArgs :
          move_product_begin(th, s, t, p, q)
    \/ \E th \in Threads : move_product_source(th)
    \/ \E th \in Threads : move_product_target_read(th)
    \/ \E th \in Threads : move_product_target(th)
    \/ \E th \in Threads : move_product_event(th)
    \/ \E th \in Threads, w \in LagerArgs, p \in ProduktArgs, by \in Actors :
          remove_product_begin(th, w, p, by)
    \/ \E th \in Threads : remove_product_delete(th)
    \/ \E th \in Threads : remove_product_event(th)
    \/ \E th \in Threads, name \in Namen, n \in PlaetzeArgs :
          create_warehouse_begin(th, name, <<"L", " ">>, n)
    \/ \E th \in Threads : create_warehouse_insert(th)
    \/ \E th \in Threads : create_warehouse_event(th)
    \/ \E th \in Threads, w \in LagerArgs, data \in LagerData :
          update_warehouse_begin(th, w, data)
    \/ \E th \in Threads : update_warehouse_update(th)
    \/ \E th \in Threads : update_warehouse_event(th)
    \/ \E th \in Threads, w \in LagerArgs : delete_warehouse_begin(th, w)
    \/ \E th \in Threads : delete_warehouse_delete(th)
    \/ \E th \in Threads : delete_warehouse_event(th)
    \/ \E th \in Threads, name \in Namen, weight \in ZahlArgs, price \in ZahlArgs :
          create_product_begin(th, name, <<" ">>, weight, price)
    \/ \E th \in Threads : create_product_insert(th)
    \/ \E th \in Threads : create_product_event(th)
    \/ \E th \in Threads, p \in ProduktArgs, data \in ProduktData :
          update_product_begin(th, p, data)
    \/ \E th \in Threads : update_product_update(th)
    \/ \E th \in Threads : update_product_event(th)
    \/ \E th \in Threads, p \in ProduktArgs : delete_product_begin(th, p)
    \/ \E th \in Threads : delete_product_delete(th)
    \/ \E th \in Threads : delete_product_event(th)
    \/ \E th \in Threads : Stop(th)

SpecRace == Init /\ [][NextRace]_rvars

(***************************************************************************)
(* The routes of the web interface that delete (frontend/flask/gui.py).    *)
(* A route of the first interface passes its arguments to one service call *)
(* and turns an exception into a message.  The delete routes of the second *)
(* interface first remove the inventory rows of the record, row by row     *)
(* through remove_product, and then delete the record.  In SpecRoutes a    *)
(* request is handled alone and to completion.                             *)
(***************************************************************************)
\* a slip: the loop over the rows ends after the first row it removed
RECURSIVE remove_entries_first(_, _, _)
remove_entries_first(inv, log, entries) ==
    IF entries = <<>> THEN [inventar |-> inv, events |-> log]
    ELSE LET entry == Head(entries)
             found == CHOOSE e \in find_inventory_entry(inv, entry.lager_id,
                                                        entry.produkt_id) : TRUE
         IN  IF remove_product_raises(found) # OK
             THEN remove_entries_first(inv, log, Tail(entries))
             ELSE [inventar |-> remove_product_write(inv, found),
                   events |-> Append(log, Event("inventar", "stock_remove",
                                        <<entry.lager_id, entry.produkt_id>>, "system",
                                        <<ProductName(entry.produkt_id),
                                          WarehouseName(entry.lager_id)>>))]

\* the loop of a delete route: remove_product for every row that was listed, a
\* KeyError of it being passed over; the inventory and the log after the loop.
\* The pair of a row that is listed has one row (requests run alone), which is the
\* one that remove_product looks up.
RECURSIVE remove_entries(_, _, _)
remove_entries(inv, log, entries) ==
    IF entries = <<>> THEN [inventar |-> inv, events |-> log]
    ELSE LET entry == Head(entries)
             found == CHOOSE e \in find_inventory_entry(inv, entry.lager_id,
                                                        entry.produkt_id) : TRUE
         IN  IF remove_product_raises(found) # OK
             THEN remove_entries(inv, log, Tail(entries))
             ELSE remove_entries(remove_product_write(inv, found),
                                 Append(log, Event("inventar", "stock_remove",
                                            <<entry.lager_id, entry.produkt_id>>, "system",
                                            <<ProductName(entry.produkt_id),
                                              WarehouseName(entry.lager_id)>>)),
                                 Tail(entries))

page2_delete_product(produkt_id) ==
    LET listed == SelectSeq(find_all(inventar), LAMBDA entry : entry.produkt_id = produkt_id)
        cleaned == remove_entries(inventar, events, listed)
    IN  /\ inventar' = cleaned.inventar
        /\ IF delete_product_raises(produkt_id) = OK
           THEN /\ produkte' = Without(produkte, produkt_id)
                /\ events' = Append(cleaned.events,
                                    Event("produkt", "delete", <<produkt_id>>, Absent,
                                          <<produkte[produkt_id].name>>))
           ELSE /\ produkte' = produkte
                /\ events' = cleaned.events
        /\ UNCHANGED <<lager, next_oid>>

page3_delete_warehouse(lager_id) ==
    LET listed == SelectSeq(find_all(inventar), LAMBDA entry : entry.lager_id = lager_id)
        cleaned == remove_entries(inventar, events, listed)
    IN  /\ inventar' = cleaned.inventar
        /\ IF delete_warehouse_raises(lager_id) = OK
           THEN /\ lager' = Without(lager, lager_id)
                /\ events' = Append(cleaned.events,
                                    Event("lager", "delete", <<lager_id>>, Absent,
                                          <<lager[lager_id].lagername>>))
           ELSE /\ lager' = lager
                /\ events' = cleaned.events
        /\ UNCHANGED <<produkte, next_oid>>

\* the routes of the first interface
inventar_add(lager_id, produkt_id, menge) == add_product(lager_id, produkt_id, menge, "system")

inventar_update(lager_id, produkt_id, menge) ==
    update_quantity(lager_id, produkt_id, menge, "system")

inventar_remove(lager_id, produkt_id) == remove_product(lager_id, produkt_id, "system")

produkte_delete(produkt_id) == delete_product(produkt_id)

lager_delete(lager_id) == delete_warehouse(lager_id)

NextRoutes ==
    \/ \E w \in LagerArgs, p \in ProduktArgs, q \in MengeArgs :
          Serial /\ inventar_add(w, p, q)
    \/ \E w \in LagerArgs, p \in ProduktArgs, q \in MengeArgs :
          Serial /\ inventar_update(w, p, q)
    \/ \E w \in LagerArgs, p \in ProduktArgs :
          Serial /\ inventar_remove(w, p)
    \/ \E p \in ProduktArgs :
          Serial /\ produkte_delete(p)
    \/ \E w \in LagerArgs :
          Serial /\ lager_delete(w)
    \/ \E p \in ProduktArgs :
          Serial /\ page2_delete_product(p)
    \/ \E w \in LagerArgs :
          Serial /\ page3_delete_warehouse(w)

SpecRoutes == Init /\ [][NextRoutes]_rvars

(***************************************************************************)
(* Vocabulary of the properties.                                           *)
(***************************************************************************)
\* the inventory rows of one (warehouse, product) pair
Rows(inv, w, p) == {e \in inv : e.lager_id = w /\ e.produkt_id = p}

RECURSIVE SumMenge(_)
SumMenge(rows) ==
    IF rows = {} THEN 0
    ELSE LET r == CHOOSE x \in rows : TRUE IN r.menge + SumMenge(rows \ {r})

\* the stock of a pair, an absent row counting as 0
Qty(inv, w, p) == SumMenge(Rows(inv, w, p))

\* the rows of every pair but the given ones
OtherRows(inv, pairs) == {e \in inv : <<e.lager_id, e.produkt_id>> \notin pairs}

\* this step appended an event, and the event it appended
Appended == Len(events') = Len(events) + 1
NewEvent == events'[Len(events')]
LastEvent == events[Len(events)]

(***************************************************************************)
(* C1  Merge-add.  A successful add(w,p,q) leaves exactly one row for      *)
(* (w,p): on a pair without a row it inserts one row of quantity q, on an  *)
(* existing row it sets the quantity to old+q in that same row and inserts *)
(* no second one; so add(w,p,q1) then add(w,p,q2) on a pair without a row  *)
(* ends with one row of quantity q1+q2.                                    *)
(***************************************************************************)
C1_AddMerges(w, p, q) ==
    /\ Cardinality(Rows(inventar', w, p)) = 1
    /\ Qty(inventar', w, p) = Qty(inventar, w, p) + q
    /\ Cardinality(inventar') = Cardinality(inventar) + (IF Rows(inventar, w, p) = {} THEN 1 ELSE 0)
    /\ Rows(inventar, w, p) # {} =>
          {e._id : e \in Rows(inventar', w, p)} = {e._id : e \in Rows(inventar, w, p)}
    /\ OtherRows(inventar', {<<w, p>>}) = OtherRows(inventar, {<<w, p>>})

C1_MergeAdd ==
    [][ (Appended /\ NewEvent.action = "stock_add")
          => \A by \in Actors :
               LET w == NewEvent.entity_id[1]
                   p == NewEvent.entity_id[2]
                   q == NewEvent.summary[1]
               IN  add_product(w, p, q, by) => C1_AddMerges(w, p, q) ]_vars

\* add(1,4,1) twice on the pair the seed left without a row
C1_Witness ==
    /\ Len(events) = 2
    /\ \A i \in 1..2 : /\ events[i].action = "stock_add"
                       /\ events[i].entity_id = <<1, 4>>
                       /\ events[i].summary[1] = 1
    /\ \E e \in inventar : e.lager_id = 1 /\ e.produkt_id = 4 /\ e.menge = 2

(***************************************************************************)
(* C2  Uniqueness.  With the calls run one at a time, there is at most one *)
(* inventory row per (warehouse_id, product_id) pair in every state.       *)
(***************************************************************************)
C2_UniquePairs ==
    \A e1 \in inventar, e2 \in inventar :
        (e1.lager_id = e2.lager_id /\ e1.produkt_id = e2.produkt_id) => e1 = e2

\* a move onto a pair that an add created
C2_Witness ==
    /\ Len(events) = 2
    /\ events[1].action = "stock_add" /\ events[1].entity_id = <<1, 4>>
    /\ events[2].action = "stock_move" /\ events[2].entity_id = <<4>>
    /\ Rows(inventar, 1, 4) # {}
    /\ Rows(inventar, 2, 4) # {}

(***************************************************************************)
(* C3  Non-negativity.  Every inventory row has a quantity >= 0 in every   *)
(* state: no add, set, removeStock, removeEntry or move writes a negative  *)
(* quantity.                                                               *)
(***************************************************************************)
C3_NonNegative == \A e \in inventar : e.menge >= 0

\* a removal and a move that both took all there was
C3_Witness ==
    /\ Len(events) = 2
    /\ events[1].action = "stock_out"
    /\ events[2].action = "stock_move"
    /\ \E e \in inventar : e.menge = 0

(***************************************************************************)
(* C4  Conservation under move.  A successful move(src,dst,p,q) with       *)
(* src # dst leaves quantity(src,p) + quantity(dst,p) as it was, and       *)
(* changes no row of any other pair.                                       *)
(***************************************************************************)
C4_Conserved(s, t, p) ==
    /\ Qty(inventar', s, p) + Qty(inventar', t, p) = Qty(inventar, s, p) + Qty(inventar, t, p)
    /\ OtherRows(inventar', {<<s, p>>, <<t, p>>}) = OtherRows(inventar, {<<s, p>>, <<t, p>>})

C4_MoveConserves ==
    [][ (Appended /\ NewEvent.action = "stock_move")
          => \A s \in LagerArgs, t \in LagerArgs :
               LET p == NewEvent.entity_id[1]
                   q == NewEvent.summary[1]
               IN  (s # t /\ move_product(s, t, p, q)) => C4_Conserved(s, t, p) ]_vars

\* one of the two units of product 4 moved from warehouse 2 to warehouse 1
C4_Witness ==
    /\ Len(events) = 1
    /\ events[1].action = "stock_move" /\ events[1].entity_id = <<4>>
    /\ Qty(inventar, 2, 4) = 1
    /\ Qty(inventar, 1, 4) = 1

(***************************************************************************)
(* C5  Insufficient stock on removal.  removeStock(w,p,q) with q > 0 on an *)
(* existing row holding less than q raises ValueError (insufficient stock) *)
(* and leaves that row, every other row and the event log unchanged.       *)
(***************************************************************************)
C5_Insufficient(q, entry) == Truthy(entry) /\ q > 0 /\ q > entry.menge

C5_RemoveStockInsufficient ==
    /\ [](\A e \in inventar, q \in MengeArgs :
            \A entry \in find_inventory_entry(inventar, e.lager_id, e.produkt_id) :
                C5_Insufficient(q, entry)
                    => remove_stock_raises(q, entry) = <<"ValueError", "unzureichend">>)
    /\ [][ \A e \in inventar, q \in MengeArgs, by \in Actors :
             ( /\ \A entry \in find_inventory_entry(inventar, e.lager_id, e.produkt_id) :
                     C5_Insufficient(q, entry)
               /\ remove_stock(e.lager_id, e.produkt_id, q, by) )
                 => UNCHANGED <<inventar, events>> ]_vars

\* a row that a set emptied: removing one unit from it is asking too much
C5_Witness ==
    /\ Len(events) >= 1
    /\ LastEvent.action = "stock_update"
    /\ \E entry \in find_inventory_entry(inventar, LastEvent.entity_id[1],
                                         LastEvent.entity_id[2]) :
          C5_Insufficient(1, entry)

(***************************************************************************)
(* C6  removeStock(w,p,q) with 0 < q <= current sets the row's quantity to *)
(* current - q and keeps the row, also when nothing is left: the empty row *)
(* stays, so removing one more unit from it raises ValueError              *)
(* (insufficient stock), not KeyError.                                     *)
(***************************************************************************)
C6_Removed(w, p, q) ==
    /\ Cardinality(Rows(inventar', w, p)) = 1
    /\ {e._id : e \in Rows(inventar', w, p)} = {e._id : e \in Rows(inventar, w, p)}
    /\ Qty(inventar', w, p) = Qty(inventar, w, p) - q
    /\ OtherRows(inventar', {<<w, p>>}) = OtherRows(inventar, {<<w, p>>})
    /\ Qty(inventar', w, p) = 0 =>
          \A entry \in find_inventory_entry(inventar', w, p) :
              remove_stock_raises(1, entry) = <<"ValueError", "unzureichend">>

C6_RemoveStockKeepsRow ==
    [][ (Appended /\ NewEvent.action = "stock_out")
          => \A by \in Actors :
               LET w == NewEvent.entity_id[1]
                   p == NewEvent.entity_id[2]
                   q == NewEvent.summary[1]
               IN  remove_stock(w, p, q, by)
                     => (0 < q /\ q <= Qty(inventar, w, p) /\ C6_Removed(w, p, q)) ]_vars

\* the only unit of product 3 in warehouse 1 was taken out, the row is still there
C6_Witness ==
    /\ Len(events) >= 1
    /\ LastEvent.action = "stock_out"
    /\ LastEvent.summary[4] = 0
    /\ \E e \in Rows(inventar, LastEvent.entity_id[1], LastEvent.entity_id[2]) : e.menge = 0

(***************************************************************************)
(* C7  move(src,dst,p,q) first writes the source: with q equal to the      *)
(* source row's quantity it deletes the row (no empty row is left), with q *)
(* smaller it updates the row to the remainder.  It then writes the        *)
(* target: an existing row for (dst,p) is incremented by q, and when there *)
(* is none a new row of quantity q is inserted.                            *)
(***************************************************************************)
\* the inventory between the two writes, as the claim describes the source side
C7_AfterSource(s, p, q) ==
    IF q = Qty(inventar, s, p)
    THEN inventar \ Rows(inventar, s, p)
    ELSE {IF e \in Rows(inventar, s, p) THEN [e EXCEPT !.menge = e.menge - q] ELSE e :
            e \in inventar}

\* the target side, from the inventory mid between the two writes
C7_TargetWritten(mid, t, p, q) ==
    IF Rows(mid, t, p) # {}
    THEN /\ inventar' = {IF e \in Rows(mid, t, p) THEN [e EXCEPT !.menge = e.menge + q]
                         ELSE e : e \in mid}
    ELSE /\ \E e \in inventar' :
              /\ e \notin mid
              /\ e.lager_id = t /\ e.produkt_id = p /\ e.menge = q
              /\ \A o \in mid : o._id # e._id
              /\ inventar' = mid \cup {e}

C7_MoveBothSides ==
    [][ (Appended /\ NewEvent.action = "stock_move")
          => \A s \in LagerArgs, t \in LagerArgs :
               LET p == NewEvent.entity_id[1]
                   q == NewEvent.summary[1]
               IN  move_product(s, t, p, q)
                     => /\ C7_TargetWritten(C7_AfterSource(s, p, q), t, p, q)
                        /\ s # t => /\ Qty(inventar', s, p) = Qty(inventar, s, p) - q
                                    /\ (q = Qty(inventar, s, p)) = (Rows(inventar', s, p) = {})
                                    /\ Qty(inventar', t, p) = Qty(inventar, t, p) + q
                                    /\ Cardinality(Rows(inventar', t, p)) = 1 ]_vars

\* one unit of product 4 taken out of warehouse 2, the other moved to warehouse 1,
\* which had none: the source row is gone and the target row is new
C7_Witness ==
    /\ Len(events) = 2
    /\ events[1].action = "stock_out" /\ events[1].entity_id = <<2, 4>>
    /\ events[2].action = "stock_move" /\ events[2].entity_id = <<4>>
    /\ events[2].summary[1] = 1
    /\ Rows(inventar, 2, 4) = {}
    /\ \E e \in Rows(inventar, 1, 4) : e.menge = 1 /\ e._id = 8

(***************************************************************************)
(* C8  Entry life cycle.  A row for a pair (w,p) comes into existence only *)
(* through add or through move creating its target, and ceases to exist    *)
(* only through removeEntry (whatever its quantity) or through move taking *)
(* all of the source; set and removeStock create and delete no row.        *)
(***************************************************************************)
C8_Pairs == {<<e.lager_id, e.produkt_id>> : e \in inventar \cup inventar'}

C8_LifeCycle ==
    [][ \A wp \in C8_Pairs :
          LET w == wp[1]
              p == wp[2]
          IN  /\ (Rows(inventar, w, p) = {} /\ Rows(inventar', w, p) # {})
                   => \/ \E q \in MengeArgs, by \in Actors : add_product(w, p, q, by)
                      \/ \E s \in LagerArgs, q \in MengeArgs : move_product(s, w, p, q)
              /\ (Rows(inventar, w, p) # {} /\ Rows(inventar', w, p) = {})
                   => \/ \E by \in Actors : remove_product(w, p, by)
                      \/ \E t \in LagerArgs :
                            /\ t # w
                            /\ move_product(w, t, p, Qty(inventar, w, p)) ]_vars

\* a row whose stock removeStock took to 0 and that removeEntry then deleted
C8_Witness ==
    /\ Len(events) = 2
    /\ events[1].action = "stock_out" /\ events[1].summary[4] = 0
    /\ events[2].action = "stock_remove" /\ events[2].entity_id = events[1].entity_id
    /\ Rows(inventar, events[2].entity_id[1], events[2].entity_id[2]) = {}

(***************************************************************************)
(* C9  Capacity guard.  As claimed: for an existing warehouse and every N, *)
(* update(max_plaetze = N) raises ValueError if and only if N is smaller   *)
(* than the number of distinct products with a row in that warehouse.      *)
(* The code also rejects every N <= 0, so the claim fails for N = 0 on a   *)
(* warehouse without rows.  As amended: it raises ValueError if and only   *)
(* if N <= 0 or N is smaller than that number; otherwise it succeeds and   *)
(* stores N.                                                               *)
(***************************************************************************)
C9_Rejected(w, n) == update_warehouse_raises(w, [max_plaetze |-> n])[1] = "ValueError"

C9_AsClaimed ==
    \A w \in DOMAIN lager, n \in PlaetzeArgs :
        C9_Rejected(w, n) <=> n < current_product_count(inventar, w)

C9_CapacityGuard ==
    /\ [](\A w \in DOMAIN lager, n \in PlaetzeArgs :
            /\ C9_Rejected(w, n) <=> (n <= 0 \/ n < Cardinality({e.produkt_id : e \in
                                                   {r \in inventar : r.lager_id = w}}))
            /\ ~C9_Rejected(w, n) => update_warehouse_raises(w, [max_plaetze |-> n]) = OK)
    /\ [][ (Appended /\ NewEvent.entity_type = "lager" /\ NewEvent.action = "update")
             => \A n \in PlaetzeArgs :
                  LET w == NewEvent.entity_id[1]
                  IN  update_warehouse(w, [max_plaetze |-> n])
                        => /\ ~C9_Rejected(w, n)
                           /\ lager'[w].max_plaetze = n
                           /\ inventar' = inventar ]_vars

\* warehouse 1 holds one product and was shrunk from two slots to exactly one
C9_Witness ==
    /\ Len(events) = 1
    /\ LastEvent.entity_type = "lager" /\ LastEvent.action = "update"
    /\ LastEvent.entity_id = <<1>>
    /\ lager[1].max_plaetze = 1
    /\ Cardinality({e.produkt_id : e \in {r \in inventar : r.lager_id = 1}}) = 1

(***************************************************************************)
(* C10  Capacity invariant.  In every state the number of distinct         *)
(* products with a row in a warehouse is at most that warehouse's          *)
(* max_plaetze.  add_product and move_product insert rows without looking  *)
(* at max_plaetze, so the code does not keep it.                           *)
(***************************************************************************)
C10_CapacityRespected ==
    \A w \in DOMAIN lager :
        Cardinality({e.produkt_id : e \in {r \in inventar : r.lager_id = w}})
            <= lager[w].max_plaetze

(***************************************************************************)
(* C12  Failure precedence of move.  When several preconditions of         *)
(* move(src,dst,p,q) fail at once, the error raised is that of the first   *)
(* failing one in the order: quantity <= 0 (ValueError), source warehouse  *)
(* missing (KeyError), target warehouse missing (KeyError), product        *)
(* missing (KeyError), no row for (src,p) (KeyError), quantity greater     *)
(* than the source stock (ValueError).                                     *)
(***************************************************************************)
\* the call raises the error of the first check that fails, in the claimed order
C12_First(raised, f1, f2, f3, f4, f5, f6) ==
    /\ f1 => raised = <<"ValueError", "menge">>
    /\ (~f1 /\ f2) => raised = <<"KeyError", "quelllager">>
    /\ (~f1 /\ ~f2 /\ f3) => raised = <<"KeyError", "ziellager">>
    /\ (~f1 /\ ~f2 /\ ~f3 /\ f4) => raised = <<"KeyError", "produkt">>
    /\ (~f1 /\ ~f2 /\ ~f3 /\ ~f4 /\ f5) => raised = <<"KeyError", "eintrag">>
    /\ (~f1 /\ ~f2 /\ ~f3 /\ ~f4 /\ ~f5 /\ f6) => raised = <<"ValueError", "unzureichend">>
    /\ (~f1 /\ ~f2 /\ ~f3 /\ ~f4 /\ ~f5 /\ ~f6) => raised = OK

C12_MovePrecedence ==
    [](\A s \in LagerArgs, p \in ProduktArgs :
           \A entry \in find_inventory_entry(inventar, s, p) :
               \A t \in LagerArgs, q \in MengeArgs :
                   \A raised \in {move_product_raises(s, t, p, q, entry)} :
                       C12_First(raised, q <= 0, s \notin DOMAIN lager, t \notin DOMAIN lager,
                                 p \notin DOMAIN produkte, entry = None, q > entry.menge))

\* warehouse 2 and product 4 were deleted and their row is still there: a move of
\* that row fails four checks at once with quantity 0, and three with quantity 1
C12_Witness ==
    /\ Len(events) = 2
    /\ events[1].entity_type = "lager" /\ events[1].action = "delete"
    /\ events[1].entity_id = <<2>>
    /\ events[2].entity_type = "produkt" /\ events[2].action = "delete"
    /\ events[2].entity_id = <<4>>
    /\ \E entry \in Rows(inventar, 2, 4) :
          /\ move_product_raises(2, 2, 4, 0, entry) = <<"ValueError", "menge">>
          /\ move_product_raises(2, 2, 4, 1, entry) = <<"KeyError", "quelllager">>
          /\ move_product_raises(1, 2, 4, 1, entry) = <<"KeyError", "ziellager">>

(***************************************************************************)
(* C13  Quantity validation precedes the existence checks.  add and set    *)
(* with a negative quantity, and removeStock and move with a quantity <= 0,*)
(* raise ValueError also when the warehouse, the product or the row does   *)
(* not exist; in add a missing warehouse is reported before a missing      *)
(* product.                                                                *)
(***************************************************************************)
C13_QuantityFirst ==
    [](\A w \in LagerArgs, p \in ProduktArgs, q \in MengeArgs :
           \A entry \in find_inventory_entry(inventar, w, p) :
               /\ q < 0 => /\ add_product_raises(w, p, q) = <<"ValueError", "menge">>
                           /\ update_quantity_raises(q, entry) = <<"ValueError", "menge">>
               /\ q <= 0 => /\ remove_stock_raises(q, entry) = <<"ValueError", "menge">>
                            /\ \A t \in LagerArgs :
                                 move_product_raises(w, t, p, q, entry) = <<"ValueError", "menge">>
               /\ (q >= 0 /\ w \notin DOMAIN lager)
                     => add_product_raises(w, p, q) = <<"KeyError", "lager">>)

\* both the warehouse and the product of a call are gone
C13_Witness ==
    /\ Len(events) = 2
    /\ events[1].entity_type = "lager" /\ events[1].action = "delete"
    /\ events[1].entity_id = <<1>>
    /\ events[2].entity_type = "produkt" /\ events[2].action = "delete"
    /\ events[2].entity_id = <<3>>
    /\ ~Exists(lager, 1) /\ ~Exists(produkte, 3)
    /\ add_product_raises(1, 3, -1) = <<"ValueError", "menge">>
    /\ add_product_raises(1, 3, 0) = <<"KeyError", "lager">>

(***************************************************************************)
(* C16  Exactly one audit event per mutating call.  Every successful       *)
(* create, update and delete of a product or a warehouse and every         *)
(* successful add, set, removeEntry, removeStock and move appends exactly  *)
(* one event, of the kind of that call; a move appends one stock_move      *)
(* event for both of its sides, not one per side.                          *)
(***************************************************************************)
\* the call that the appended event names took this step
C16_CallOf(e) ==
    \/ /\ e.entity_type = "inventar" /\ e.action = "stock_add"
       /\ add_product(e.entity_id[1], e.entity_id[2], e.summary[1], e.performed_by)
    \/ /\ e.entity_type = "inventar" /\ e.action = "stock_update"
       /\ update_quantity(e.entity_id[1], e.entity_id[2], e.summary[3], e.performed_by)
    \/ /\ e.entity_type = "inventar" /\ e.action = "stock_remove"
       /\ remove_product(e.entity_id[1], e.entity_id[2], e.performed_by)
    \/ /\ e.entity_type = "inventar" /\ e.action = "stock_out"
       /\ remove_stock(e.entity_id[1], e.entity_id[2], e.summary[1], e.performed_by)
    \/ /\ e.entity_type = "inventar" /\ e.action = "stock_move"
       /\ \E s \in LagerArgs, t \in LagerArgs :
            /\ move_product(s, t, e.entity_id[1], e.summary[1])
            /\ s # t => /\ Qty(inventar', s, e.entity_id[1]) # Qty(inventar, s, e.entity_id[1])
                        /\ Qty(inventar', t, e.entity_id[1]) # Qty(inventar, t, e.entity_id[1])
    \/ /\ e.entity_type = "lager" /\ e.action = "create"
       /\ \E name \in Namen, n \in PlaetzeArgs : create_warehouse(name, <<"L", " ">>, n)
    \/ /\ e.entity_type = "lager" /\ e.action = "update"
       /\ \E data \in LagerData : update_warehouse(e.entity_id[1], data)
    \/ /\ e.entity_type = "lager" /\ e.action = "delete"
       /\ delete_warehouse(e.entity_id[1])
    \/ /\ e.entity_type = "produkt" /\ e.action = "create"
       /\ \E name \in Namen, weight \in ZahlArgs, price \in ZahlArgs :
            create_product(name, <<" ">>, weight, price)
    \/ /\ e.entity_type = "produkt" /\ e.action = "update"
       /\ \E data \in ProduktData : update_product(e.entity_id[1], data)
    \/ /\ e.entity_type = "produkt" /\ e.action = "delete"
       /\ delete_product(e.entity_id[1])

C17_AppendOnly ==
    [][ /\ Len(events') >= Len(events)
        /\ \A i \in 1..Len(events) : events'[i] = events[i] ]_vars

\* the event of a product's deletion is still first in the log after the product's
\* leftover row was removed
C17_Witness ==
    /\ Len(events) = 2
    /\ events[1].entity_type = "produkt" /\ events[1].action = "delete"
    /\ events[1].entity_id = <<4>>
    /\ events[2].entity_type = "inventar" /\ events[2].action = "stock_remove"
    /\ events[2].entity_id = <<2, 4>>
    /\ Rows(inventar, 2, 4) = {}

(***************************************************************************)
(* C19  set is an absolute overwrite.  set(w,p,q) with q >= 0 on an        *)
(* existing row makes that row's quantity exactly q whatever it was, so    *)
(* that repeating the set leaves it at q, and changes no other row; when   *)
(* (w,p) has no row it raises KeyError and creates none.                   *)
(***************************************************************************)
C19_Overwritten(w, p, q) ==
    /\ q >= 0
    /\ Rows(inventar, w, p) # {}
    /\ Cardinality(Rows(inventar', w, p)) = Cardinality(Rows(inventar, w, p))
    /\ {e._id : e \in Rows(inventar', w, p)} = {e._id : e \in Rows(inventar, w, p)}
    /\ Qty(inventar', w, p) = q
    /\ OtherRows(inventar', {<<w, p>>}) = OtherRows(inventar, {<<w, p>>})

C19_SetOverwrites ==
    /\ [](\A w \in LagerArgs, p \in ProduktArgs, q \in MengeArgs :
            (q >= 0 /\ Rows(inventar, w, p) = {})
               => \A entry \in find_inventory_entry(inventar, w, p) :
                     update_quantity_raises(q, entry) = <<"KeyError", "eintrag">>)
    /\ [][ Appended =>
             /\ NewEvent.action = "stock_update"
                  => \A by \in Actors :
                       LET w == NewEvent.entity_id[1]
                           p == NewEvent.entity_id[2]
                           q == NewEvent.summary[3]
                       IN  update_quantity(w, p, q, by) => C19_Overwritten(w, p, q)
             /\ \A wp \in {<<e.lager_id, e.produkt_id>> : e \in inventar'} :
                  Rows(inventar, wp[1], wp[2]) = {}
                     => ~ \E q \in MengeArgs, by \in Actors :
                            update_quantity(wp[1], wp[2], q, by) ]_vars

\* the row of two units set to 1, and set to 1 again
C19_Witness ==
    /\ Len(events) = 2
    /\ \A i \in 1..2 : /\ events[i].action = "stock_update"
                       /\ events[i].entity_id = <<2, 4>>
                       /\ events[i].summary[3] = 1
    /\ \E e \in inventar : e._id = 7 /\ e.menge = 1

(***************************************************************************)
(* C20  add(w,p,0).  On an existing warehouse and product, add with        *)
(* quantity 0 succeeds: without a row for (w,p) it inserts a row of        *)
(* quantity 0, on an existing row it leaves the quantity as it is; in both *)
(* cases it appends a stock_add event.                                     *)
(***************************************************************************)
C20_ZeroAdded(w, p) ==
    /\ NewEvent.action = "stock_add"
    /\ NewEvent.entity_id = <<w, p>>
    /\ NewEvent.summary[1] = 0
    /\ IF Rows(inventar, w, p) = {}
       THEN \E e \in inventar' :
              /\ e.lager_id = w /\ e.produkt_id = p /\ e.menge = 0
              /\ e \notin inventar
              /\ inventar' = inventar \cup {e}
       ELSE inventar' = inventar

C11_InventoryRaises ==
    UNION { {add_product_raises(w, p, q)} \cup
            UNION { {update_quantity_raises(q, entry), remove_product_raises(entry),
                     remove_stock_raises(q, entry)} \cup
                    {move_product_raises(w, t, p, q, entry) : t \in LagerArgs} :
                    entry \in find_inventory_entry(inventar, w, p) } :
            w \in LagerArgs, p \in ProduktArgs, q \in MengeArgs } \ {OK}

C11_WarehouseRaises ==
    ( {create_warehouse_raises(name, n) : name \in Namen, n \in PlaetzeArgs} \cup
      {update_warehouse_raises(w, data) : w \in LagerArgs, data \in LagerData} \cup
      {delete_warehouse_raises(w) : w \in LagerArgs} ) \ {OK}

C11_ProductRaises ==
    ( {create_product_raises(name, weight, price) :
          name \in Namen, weight \in ZahlArgs, price \in ZahlArgs} \cup
      {update_product_raises(p, data) : p \in ProduktArgs, data \in ProduktData} \cup
      {delete_product_raises(p) : p \in ProduktArgs} ) \ {OK}

C18_ReadStep ==
    \/ \E p \in ProduktArgs : get_product(p)
    \/ list_products
    \/ \E w \in LagerArgs : get_warehouse(w)
    \/ list_warehouses
    \/ get_total_inventory_value
    \/ \E w \in LagerArgs : list_inventory(w)

C18_ReadsChangeNothing ==
    [][ \/ UNCHANGED <<lager, produkte, inventar, events>>
        \/ ~C18_ReadStep ]_vars

\* warehouse 1 is gone and its row is left: list_inventory raises for warehouse 1,
\* returns the two rows of warehouse 2, and the total counts rows without a price
C18_Witness ==
    /\ Len(events) = 1
    /\ LastEvent.entity_type = "lager" /\ LastEvent.action = "delete"
    /\ LastEvent.entity_id = <<1>>
    /\ list_inventory_raises(1) = <<"KeyError", "lager">>
    /\ list_inventory_raises(2) = OK
    /\ Cardinality(list_inventory_returns(2)) = 2
    /\ get_total_inventory_value_returns = 0
    /\ Rows(inventar, 1, 3) # {}

(***************************************************************************)
(* C14  Lost update under interleaving.  The calls read a row and write it *)
(* back in two database calls, without lock or transaction: the write of   *)
(* add stores the quantity that was read plus q, and the write of          *)
(* removeStock the quantity that was read minus q, whatever the row holds  *)
(* by then.  Two interleaved add calls with q1 and q2 on a row of quantity *)
(* c therefore end with c+q1+q2, c+q1 or c+q2; both succeed and both       *)
(* append their event.                                                     *)
(***************************************************************************)
\* the quantity that the row of the given id holds after the step is n
C14_Stored(id, n) == \A e \in inventar' : e._id = id => e.menge = n

\* both requests of the run were add calls on the pair (w,p), and both returned
C14_TwoAdds(w, p) ==
    /\ Len(events) = 2
    /\ \A i \in 1..2 : events[i].action = "stock_add" /\ events[i].entity_id = <<w, p>>
    /\ \A th \in Threads : requests[th].pc = "returned"

C14_LostUpdate ==
    /\ [](\A e \in SeedInventar :
            (lager = SeedLager /\ C14_TwoAdds(e.lager_id, e.produkt_id))
               => /\ Cardinality(Rows(inventar, e.lager_id, e.produkt_id)) = 1
                  /\ Qty(inventar, e.lager_id, e.produkt_id)
                        \in {e.menge + events[1].summary[1] + events[2].summary[1],
                             e.menge + events[1].summary[1],
                             e.menge + events[2].summary[1]})
    /\ [][ \A th \in Threads :
             LET r == requests[th]
             IN  /\ (add_product_write(th) /\ Truthy(r.entry))
                       => C14_Stored(r.entry._id, r.entry.menge + r.quantity)
                 /\ remove_stock_update(th)
                       => C14_Stored(r.entry._id, r.entry.menge - r.quantity) ]_rvars

\* two add calls of one unit on the row of one unit both returned and both logged
\* their event, and the row holds two units, not three
C14_Witness ==
    /\ C14_TwoAdds(1, 3)
    /\ events[1].summary[1] = 1 /\ events[2].summary[1] = 1
    /\ \E e \in inventar : e._id = 5 /\ e.menge = 2

(***************************************************************************)
(* C15  move is not atomic.  It writes the source row strictly before the  *)
(* target row: after the source write, quantity(src,p) + quantity(dst,p)   *)
(* is lower by q than before, and no stock_move event is written before    *)
(* the last step of the call.  A request that stops between the two writes *)
(* has lost the units and left no event.  The target write stores the      *)
(* quantity that was read plus q, so a call that changes the target row    *)
(* between move's read and write of it loses or duplicates units.          *)
(***************************************************************************)
C15_Between == {"move_target_read", "move_target_write"}

C15_MoveNotAtomic ==
    /\ []( (requests[1].pc = "stopped" /\ requests[1].at \in C15_Between
              /\ requests[2].pc = "idle")
             => /\ events = <<>>
                /\ SumMenge(inventar) < SumMenge(SeedInventar) )
    /\ [][ \A th \in Threads :
             LET r == requests[th]
                 s == r.warehouse_id
                 t == r.target_warehouse_id
                 p == r.product_id
             IN  /\ (move_product_source(th) /\ r.entry \in inventar /\ s # t)
                       => /\ Qty(inventar', s, p) + Qty(inventar', t, p)
                                = Qty(inventar, s, p) + Qty(inventar, t, p) - r.quantity
                          /\ Rows(inventar', t, p) = Rows(inventar, t, p)
                          /\ requests'[th].pc = "move_target_read"
                 /\ (r.pc \in {"move_source"} \cup C15_Between /\ requests'[th] # r)
                       => events' = events
                 /\ (move_product_target(th) /\ Truthy(r.entry))
                       => /\ \A e \in inventar' :
                               e._id = r.entry._id => e.menge = r.entry.menge + r.quantity
                          /\ Rows(inventar', s, p) = Rows(inventar, s, p) \/ s = t
                 /\ (Appended /\ NewEvent.action = "stock_move" /\ requests'[th] # r)
                       => r.pc = "move_event" /\ requests'[th].pc = "returned" ]_rvars

\* a move of one unit stopped after its source write: the unit is in no row and
\* the log is empty
C15_Witness ==
    /\ requests[1].pc = "stopped" /\ requests[1].at = "move_target_read"
    /\ requests[2].pc = "idle"
    /\ events = <<>>
    /\ SumMenge(inventar) = SumMenge(SeedInventar) - 1

\* a move of one unit into warehouse 1 read the target row of one unit, an add of
\* one unit to that row returned, and the move wrote two: the added unit is lost
C15_UnitsLost ==
    /\ Len(events) = 2
    /\ events[1].action = "stock_add" /\ events[1].entity_id = <<1, 3>>
    /\ events[1].summary[1] = 1
    /\ events[2].action = "stock_move" /\ events[2].entity_id = <<3>>
    /\ events[2].summary[1] = 1
    /\ Rows(inventar, 2, 3) = {}
    /\ Qty(inventar, 1, 3) = 2

\* the move read the target row of one unit, a removeStock took that unit out, and
\* the move wrote two: the unit taken out is back in stock
C15_UnitsDuplicated ==
    /\ Len(events) = 2
    /\ events[1].action = "stock_out" /\ events[1].entity_id = <<1, 3>>
    /\ events[1].summary[1] = 1
    /\ events[2].action = "stock_move" /\ events[2].entity_id = <<3>>
    /\ events[2].summary[1] = 1
    /\ Rows(inventar, 2, 3) = {}
    /\ Qty(inventar, 1, 3) = 2

(***************************************************************************)
(* C21  As the inventory port documents it, add_product raises ValueError  *)
(* whenever menge is not a positive integer: a quantity of 0 is rejected   *)
(* as well as a negative one, so every stock_add event is of a quantity    *)
(* above 0.  The service tests quantity < 0 only and accepts 0.            *)
(***************************************************************************)
C21_PositiveOnly ==
    [][ (Appended /\ NewEvent.action = "stock_add") => NewEvent.summary[1] > 0 ]_vars

(***************************************************************************)
(* C22  totalValue() returns the sum, over all inventory rows of all       *)
(* warehouses, of quantity times the price of the row's product, where a   *)
(* row whose product no longer exists or has no price field contributes 0. *)
(* It checks the existence of no warehouse and no product and returns a    *)
(* number in every state.                                                  *)
(***************************************************************************)
\* what the row of the given id contributes, a row that is not there nothing
C22_Contribution(id) ==
    LET found == {e \in inventar : e._id = id}
        entry == CHOOSE e \in found : TRUE
    IN  IF found = {} THEN 0
        ELSE IF entry.produkt_id \notin DOMAIN produkte THEN 0
        ELSE IF "preis" \notin DOMAIN produkte[entry.produkt_id] THEN 0
        ELSE entry.menge * produkte[entry.produkt_id].preis

\* the contributions of the rows with the ids 1..n
RECURSIVE C22_Sum(_)
C22_Sum(n) == IF n = 0 THEN 0 ELSE C22_Contribution(n) + C22_Sum(n - 1)

C22_TotalValue ==
    /\ get_total_inventory_value_returns = C22_Sum(next_oid - 1)
    /\ get_total_inventory_value_returns \in Nat

\* a product with price 1 was created and one unit of it stocked in warehouse 1,
\* beside the rows of the products without a price: the total is 1
C22_Witness ==
    /\ Len(events) = 2
    /\ events[1].entity_type = "produkt" /\ events[1].action = "create"
    /\ events[2].action = "stock_add" /\ events[2].entity_id = <<1, 8>>
    /\ events[2].summary[1] = 1
    /\ produkte[8].preis = 1
    /\ \E e \in inventar : e.menge > 0 /\ "preis" \notin DOMAIN produkte[e.produkt_id]
    /\ get_total_inventory_value_returns = 1

(***************************************************************************)
(* C23  list(warehouse_id) raises KeyError when the warehouse does not     *)
(* exist.  Otherwise it returns exactly one projected entry per inventory  *)
(* row of that warehouse and none of another warehouse, each with the      *)
(* row's product id and quantity, with the product's name and description  *)
(* when the product exists and with the name "?" and an empty description  *)
(* when it does not.                                                       *)
(***************************************************************************)
\* the entry x is the projection of the row e of warehouse w
C23_Projects(x, e, w) ==
    /\ e.lager_id = w /\ x.lager_id = w
    /\ x.produkt_id = e.produkt_id
    /\ x.menge = e.menge
    /\ IF e.produkt_id \in DOMAIN produkte
       THEN /\ x.produkt_name = produkte[e.produkt_id].name
            /\ x.produkt_beschreibung = produkte[e.produkt_id].beschreibung
       ELSE /\ x.produkt_name = <<"?">>
            /\ x.produkt_beschreibung = <<>>

C23_ListInventory ==
    \A w \in LagerArgs :
        IF w \notin DOMAIN lager
        THEN list_inventory_raises(w) = <<"KeyError", "lager">>
        ELSE /\ list_inventory_raises(w) = OK
             /\ Cardinality(list_inventory_returns(w))
                   = Cardinality({e \in inventar : e.lager_id = w})
             /\ \A e \in inventar :
                   e.lager_id = w =>
                      Cardinality({x \in list_inventory_returns(w) : x._id = e._id}) = 1
             /\ \A x \in list_inventory_returns(w) :
                   \E e \in inventar : e._id = x._id /\ C23_Projects(x, e, w)

\* product 4 was deleted: warehouse 2 lists its row of product 3 by name and its row
\* of product 4 under the placeholder, and warehouse 1 lists one row
C23_Witness ==
    /\ Len(events) = 1
    /\ LastEvent.entity_type = "produkt" /\ LastEvent.action = "delete"
    /\ LastEvent.entity_id = <<4>>
    /\ \E x \in list_inventory_returns(2) :
          x.produkt_id = 4 /\ x.produkt_name = <<"?">> /\ x.menge = 2
    /\ \E x \in list_inventory_returns(2) :
          x.produkt_id = 3 /\ x.produkt_name = <<"B">> /\ x.produkt_beschreibung = <<"E">>
    /\ Cardinality(list_inventory_returns(1)) = 1
    /\ list_inventory_raises(NoSuchId) = <<"KeyError", "lager">>

(***************************************************************************)
(* C24  No cascade in the core.  delete_product and delete_warehouse leave *)
(* the inventory collection unchanged: after the deletion of a product or  *)
(* a warehouse that still has inventory rows, those rows are still there,  *)
(* dangling, and the inventory queries still return them.                  *)
(***************************************************************************)
\* the row is what the queries over the inventory return after the step
C24_StillReturned(e) ==
    /\ e \in find_inventory_entry(inventar', e.lager_id, e.produkt_id)
    /\ e \in find_inventory_by_warehouse(inventar', e.lager_id)
    /\ e.lager_id \in DOMAIN lager' =>
          \E x \in list_inventory_returns(e.lager_id)' :
              x._id = e._id /\ x.produkt_id = e.produkt_id /\ x.menge = e.menge

C24_NoCascade ==
    [][ (Appended /\ NewEvent.action = "delete")
          => LET id == NewEvent.entity_id[1]
             IN  /\ inventar' = inventar
                 /\ NewEvent.entity_type = "produkt"
                      => /\ delete_product(id)
                         /\ id \notin DOMAIN produkte'
                         /\ \A e \in inventar : e.produkt_id = id => C24_StillReturned(e)
                 /\ NewEvent.entity_type = "lager"
                      => /\ delete_warehouse(id)
                         /\ id \notin DOMAIN lager'
                         /\ \A e \in inventar : e.lager_id = id => C24_StillReturned(e) ]_vars

\* product 3 and then warehouse 1 were deleted: the row of product 3 in warehouse 1
\* dangles on both sides, and the row of product 3 in warehouse 2 is still listed
C24_Witness ==
    /\ Len(events) = 2
    /\ events[1].entity_type = "produkt" /\ events[1].action = "delete"
    /\ events[1].entity_id = <<3>>
    /\ events[2].entity_type = "lager" /\ events[2].action = "delete"
    /\ events[2].entity_id = <<1>>
    /\ ~Exists(produkte, 3) /\ ~Exists(lager, 1)
    /\ [_id |-> 5, lager_id |-> 1, produkt_id |-> 3, menge |-> 1]
          \in find_inventory_entry(inventar, 1, 3)
    /\ \E x \in list_inventory_returns(2) : x._id = 6 /\ x.produkt_name = <<"?">>

(***************************************************************************)
(* C25  Partial update.  A successful update_product or update_warehouse   *)
(* changes only the accepted fields that were supplied (product: name,     *)
(* beschreibung, gewicht; warehouse: lagername, adresse, max_plaetze),     *)
(* stored as the create rules accept and store them; every field that was  *)
(* not supplied, and every supplied field outside the accepted set, keeps  *)
(* its stored value, and no other document changes.                        *)
(***************************************************************************)
\* the document after the update differs from the one before in the fields set only
C25_OthersKept(before, after, set) ==
    /\ DOMAIN after = DOMAIN before \cup set
    /\ \A k \in DOMAIN before \ set : after[k] = before[k]

\* one document of the collection was updated, the others are as they were
C25_OnlyDocument(before, after, id) ==
    /\ DOMAIN after = DOMAIN before
    /\ \A o \in DOMAIN before \ {id} : after[o] = before[o]

C25_ProductUpdated(id, data) ==
    LET set == DOMAIN data \cap {"name", "beschreibung", "gewicht"}
    IN  /\ C25_OnlyDocument(produkte, produkte', id)
        /\ C25_OthersKept(produkte[id], produkte'[id], set)
        /\ "name" \in set => /\ produkte'[id].name = Strip(data.name)
                             /\ create_product_raises(data.name, 0, 0) = OK
        /\ "beschreibung" \in set => produkte'[id].beschreibung = Strip(data.beschreibung)
        /\ "gewicht" \in set => /\ produkte'[id].gewicht = data.gewicht
                                /\ create_product_raises(<<"x">>, data.gewicht, 0) = OK
        /\ UNCHANGED <<lager, inventar>>

C25_WarehouseUpdated(id, data) ==
    LET set == DOMAIN data \cap {"lagername", "adresse", "max_plaetze"}
    IN  /\ C25_OnlyDocument(lager, lager', id)
        /\ C25_OthersKept(lager[id], lager'[id], set)
        /\ "lagername" \in set => /\ lager'[id].lagername = Strip(data.lagername)
                                  /\ create_warehouse_raises(data.lagername, 1) = OK
        /\ "adresse" \in set => lager'[id].adresse = Strip(data.adresse)
        /\ "max_plaetze" \in set => /\ lager'[id].max_plaetze = data.max_plaetze
                                    /\ create_warehouse_raises(<<"x">>, data.max_plaetze) = OK
        /\ UNCHANGED <<produkte, inventar>>

C26_PriceSettable ==
    [][ (Appended /\ NewEvent.entity_type = "produkt" /\ NewEvent.action = "update")
          => \A id \in DOMAIN produkte, data \in ProduktData :
               ( /\ NewEvent.entity_id = <<id>>
                 /\ "preis" \in DOMAIN data /\ data.preis >= 0
                 /\ update_product(id, data) )
                 => /\ "preis" \in DOMAIN produkte'[id]
                    /\ produkte'[id].preis = data.preis
                    /\ price_of(id)' = data.preis ]_vars

(***************************************************************************)
(* C27  Stored-record validity.  In every state reachable through create   *)
(* and update, every stored product has a non-empty trimmed name, a weight *)
(* >= 0 and a price >= 0, and every stored warehouse has a non-empty       *)
(* trimmed name and a capacity > 0; a create or an update that would store *)
(* a record violating this raises ValueError.  (The products of the seed   *)
(* are written without a price, which counts as 0.)                        *)
(***************************************************************************)
C27_ValidProduct(doc) ==
    /\ doc.name # <<>> /\ doc.name = Strip(doc.name)
    /\ doc.gewicht >= 0
    /\ IF "preis" \in DOMAIN doc THEN doc.preis >= 0 ELSE "kategorie" \in DOMAIN doc

C27_ValidWarehouse(doc) ==
    /\ doc.lagername # <<>> /\ doc.lagername = Strip(doc.lagername)
    /\ doc.max_plaetze > 0

\* the document that an update with the given data would store
C27_Updated(doc, data, text, numbers) ==
    [k \in DOMAIN doc \cup (DOMAIN data \cap (text \cup numbers)) |->
        IF k \in DOMAIN data \cap text THEN Strip(data[k])
        ELSE IF k \in DOMAIN data \cap numbers THEN data[k]
        ELSE doc[k]]

\* a create that would store an invalid record raises ValueError
C27_CreateRejects ==
    /\ \A name \in Namen, weight \in ZahlArgs, price \in ZahlArgs :
          ~C27_ValidProduct([name |-> Strip(name), beschreibung |-> <<>>,
                             gewicht |-> weight, preis |-> price])
             => create_product_raises(name, weight, price)[1] = "ValueError"
    /\ \A name \in Namen, n \in PlaetzeArgs :
          ~C27_ValidWarehouse([lagername |-> Strip(name), adresse |-> <<>>, max_plaetze |-> n])
             => create_warehouse_raises(name, n)[1] = "ValueError"

C27_RecordsValid ==
    [](/\ \A id \in DOMAIN produkte : C27_ValidProduct(produkte[id])
       /\ \A id \in DOMAIN lager : C27_ValidWarehouse(lager[id])
       /\ C27_CreateRejects
       /\ \A id \in DOMAIN produkte, data \in ProduktData :
             ~C27_ValidProduct(C27_Updated(produkte[id], data, {"name", "beschreibung"},
                                           {"gewicht"}))
                => update_product_raises(id, data)[1] = "ValueError"
       /\ \A id \in DOMAIN lager, data \in LagerData :
             ~C27_ValidWarehouse(C27_Updated(lager[id], data, {"lagername", "adresse"},
                                             {"max_plaetze"}))
                => update_warehouse_raises(id, data)[1] = "ValueError")

\* on a fresh database a warehouse and a product were created from the name " K ":
\* both carry the name "K", and a blank name, a negative number and a capacity of 0
\* are turned down
C27_Witness ==
    /\ Len(events) = 2
    /\ events[1].entity_type = "lager" /\ events[1].action = "create"
    /\ events[2].entity_type = "produkt" /\ events[2].action = "create"
    /\ lager[1].lagername = <<"K">> /\ lager[1].max_plaetze = 1
    /\ produkte[2].name = <<"K">> /\ produkte[2].preis = 1
    /\ update_product_raises(2, [name |-> <<" ">>]) = <<"ValueError", "name">>
    /\ update_warehouse_raises(1, [max_plaetze |-> 0]) = <<"ValueError", "max_plaetze">>
    /\ create_product_raises(<<" ", "K", " ">>, 1, -1) = <<"ValueError", "preis">>

(***************************************************************************)
(* C28  Delete life cycle.  update and delete of a product or warehouse    *)
(* whose id is unknown raise KeyError.  After a successful delete(id),     *)
(* get(id) returns nothing and every later update(id) or delete(id) raises *)
(* KeyError: a deleted record never reappears under the same id.           *)
(***************************************************************************)
\* the ids of the records of one kind that the log reports as deleted
C28_Deleted(entity_type) ==
    {events[i].entity_id[1] : i \in {j \in 1..Len(events) :
        events[j].entity_type = entity_type /\ events[j].action = "delete"}}

C28_UnknownProduct(id) ==
    /\ get_product_returns(id) = {}
    /\ delete_product_raises(id) = <<"KeyError", "produkt">>
    /\ \A data \in ProduktData : update_product_raises(id, data) = <<"KeyError", "produkt">>

C28_UnknownWarehouse(id) ==
    /\ get_warehouse_returns(id) = {}
    /\ delete_warehouse_raises(id) = <<"KeyError", "lager">>
    /\ \A data \in LagerData : update_warehouse_raises(id, data) = <<"KeyError", "lager">>

C28_DeleteLifeCycle ==
    /\ \A id \in (ProduktArgs \ DOMAIN produkte) \cup C28_Deleted("produkt") :
          id \notin DOMAIN produkte /\ C28_UnknownProduct(id)
    /\ \A id \in (LagerArgs \ DOMAIN lager) \cup C28_Deleted("lager") :
          id \notin DOMAIN lager /\ C28_UnknownWarehouse(id)

\* product 3 was deleted and a product created after it: the new one has another
\* id, and product 3 is unknown to get, update and delete
C28_Witness ==
    /\ Len(events) = 2
    /\ events[1].entity_type = "produkt" /\ events[1].action = "delete"
    /\ events[1].entity_id = <<3>>
    /\ events[2].entity_type = "produkt" /\ events[2].action = "create"
    /\ DOMAIN produkte = {4, 8}
    /\ C28_UnknownProduct(3)
    /\ C28_UnknownProduct(NoSuchId)

(***************************************************************************)
(* C29  Actor recording.  As claimed: every audit event carries a          *)
(* performed_by actor; the event of add, set, removeEntry and removeStock  *)
(* carries the performed_by value the caller passed ("system" when none is *)
(* passed), and the event of move always carries "system", with entity_id  *)
(* equal to the product id.  The events of the product and the warehouse   *)
(* service are written without performed_by, so the first part fails.  As  *)
(* amended: every event of the inventory service carries a performed_by    *)
(* actor, and the create, update and delete events of products and         *)
(* warehouses carry none; the rest as claimed.                             *)
(***************************************************************************)
\* the event this step appended names the caller of the call that the step is
C29_ActorOfCall ==
    LET e == NewEvent
    IN  /\ e.action = "stock_add"
             => /\ \E by \in ActorArgs :
                      add_product(e.entity_id[1], e.entity_id[2], e.summary[1], by)
                /\ \A by \in ActorArgs :
                      add_product(e.entity_id[1], e.entity_id[2], e.summary[1], by)
                         => e.performed_by = by
        /\ e.action = "stock_update"
             => /\ \E by \in ActorArgs :
                      update_quantity(e.entity_id[1], e.entity_id[2], e.summary[3], by)
                /\ \A by \in ActorArgs :
                      update_quantity(e.entity_id[1], e.entity_id[2], e.summary[3], by)
                         => e.performed_by = by
        /\ e.action = "stock_remove"
             => /\ \E by \in ActorArgs : remove_product(e.entity_id[1], e.entity_id[2], by)
                /\ \A by \in ActorArgs :
                      remove_product(e.entity_id[1], e.entity_id[2], by)
                         => e.performed_by = by
        /\ e.action = "stock_out"
             => /\ \E by \in ActorArgs :
                      remove_stock(e.entity_id[1], e.entity_id[2], e.summary[1], by)
                /\ \A by \in ActorArgs :
                      remove_stock(e.entity_id[1], e.entity_id[2], e.summary[1], by)
                         => e.performed_by = by
        /\ e.action = "stock_move"
             => /\ e.performed_by = "system"
                /\ \E s \in LagerArgs, t \in LagerArgs, p \in ProduktArgs :
                      move_product(s, t, p, e.summary[1])
                /\ \A s \in LagerArgs, t \in LagerArgs, p \in ProduktArgs :
                      move_product(s, t, p, e.summary[1]) => e.entity_id = <<p>>

C30_DuplicateRows ==
    /\ []( (lager = SeedLager /\ C14_TwoAdds(1, 4))
             => /\ Cardinality(Rows(inventar, 1, 4)) \in {1, 2}
                /\ Qty(inventar, 1, 4) = events[1].summary[1] + events[2].summary[1] )
    /\ [][ \A th \in Threads :
             LET r == requests[th]
                 e == [_id |-> next_oid, lager_id |-> r.warehouse_id,
                       produkt_id |-> r.product_id, menge |-> r.quantity]
             IN  (add_product_write(th) /\ ~Truthy(r.entry))
                   => /\ e \notin inventar
                      /\ inventar' = inventar \cup {e}
                      /\ Cardinality(Rows(inventar', r.warehouse_id, r.product_id))
                            = Cardinality(Rows(inventar, r.warehouse_id, r.product_id)) + 1
           ]_rvars

\* two add calls of one unit of product 4 to warehouse 1, which had no row of it,
\* both returned: the pair has two rows of one unit each
C30_Witness ==
    /\ C14_TwoAdds(1, 4)
    /\ Cardinality(Rows(inventar, 1, 4)) = 2
    /\ \A e \in Rows(inventar, 1, 4) : e.menge = 1

(***************************************************************************)
(* C31  Non-negativity survives interleaving.  Under any interleaving of   *)
(* the database calls of concurrent add, set, removeStock and move calls,  *)
(* no inventory row ever holds a negative quantity: the row a request read *)
(* holds a quantity of 0 or more, a request about to take units out has    *)
(* checked its quantity against the row it read, and the value a request   *)
(* is about to write is 0 or more.  Units may be withdrawn twice or lost.  *)
(***************************************************************************)
\* the quantity the request is about to store in the row it read (or to insert)
C31_ToWrite(r) ==
    CASE r.pc = "add_write" -> add_new_quantity(r.entry, r.quantity)
      [] r.pc = "set_write" -> r.quantity
      [] r.pc \in {"out_write", "move_source"} -> r.entry.menge - r.quantity
      [] r.pc = "move_target_write" -> r.entry.menge + r.quantity
      [] OTHER -> 0

C31_NonNegativeInterleaved ==
    /\ \A e \in inventar : e.menge >= 0
    /\ \A th \in Threads :
         /\ requests[th].entry.menge >= 0
         /\ requests[th].pc \in {"out_write", "move_source"}
               => 0 < requests[th].quantity /\ requests[th].quantity <= requests[th].entry.menge
         /\ C31_ToWrite(requests[th]) >= 0

\* two removeStock calls of one unit on the row of one unit both returned: two units
\* were withdrawn from a stock of one, and the row holds 0
C31_Witness ==
    /\ Len(events) = 2
    /\ \A i \in 1..2 : /\ events[i].action = "stock_out"
                       /\ events[i].entity_id = <<1, 3>>
                       /\ events[i].summary[1] = 1
    /\ \E e \in inventar : e._id = 5 /\ e.menge = 0

(***************************************************************************)
(* C32  Event write comes last.  In every call that writes, the audit      *)
(* event is written only after all of the call's primary writes: a request *)
(* starts without writing, each of its writes leaves the log as it is, it  *)
(* reaches the place of its event only from its last write, and the step   *)
(* that appends the event writes nothing else and returns.  So at every    *)
(* point of a run, one cut short between two writes included, the log      *)
(* holds one event per request that went through, and none of a request    *)
(* that has writes left.  The converse is possible: a request that stops   *)
(* after its writes has changed the store and left no event.               *)
(***************************************************************************)
\* the places of a request right before its event is written
C32_EventPcs ==
    {"add_event", "set_event", "remove_event", "out_event", "move_event",
     "lager_insert_event", "lager_update_event", "lager_delete_event",
     "produkt_insert_event", "produkt_update_event", "produkt_delete_event"}

\* the primary writes a request at the given place has still to make
C32_WritesLeft(pc) ==
    IF pc = "move_source" THEN 2
    ELSE IF pc \in C32_EventPcs \cup {"idle", "returned", "stopped"} THEN 0
    ELSE 1

\* the step wrote to none of the three primary collections
C32_NoPrimaryWrite == UNCHANGED <<lager, produkte, inventar, next_oid>>

\* one request ran on the seeded database, went through and logged e
C32_Alone(e) ==
    /\ requests[1].pc = "returned" /\ requests[2].pc = "idle"
    /\ events = <<e>>

C32_EventLast ==
    /\ [](/\ Len(events) = Cardinality({th \in Threads : requests[th].pc = "returned"})
          /\ \A e \in {events[i] : i \in 1..Len(events)} :
               C32_Alone(e) =>
                 /\ e.action = "stock_out"
                       => SumMenge(inventar) = SumMenge(SeedInventar) - e.summary[1]
                 /\ e.action = "stock_move"
                       => SumMenge(inventar) = SumMenge(SeedInventar)
                 /\ e.action = "stock_remove" => Rows(inventar, e.entity_id[1], e.entity_id[2]) = {}
                 /\ e.action = "create" => e.entity_id[1] \in DOMAIN lager \cup DOMAIN produkte
                 /\ e.action = "delete"
                       => e.entity_id[1] \notin DOMAIN lager \cup DOMAIN produkte)
    /\ [][ /\ Appended =>
                /\ C32_NoPrimaryWrite
                /\ \E th \in Threads : /\ requests[th].pc \in C32_EventPcs
                                       /\ requests'[th].pc = "returned"
           /\ ~C32_NoPrimaryWrite =>
                /\ events' = events
                /\ \E th \in Threads :
                     /\ C32_WritesLeft(requests[th].pc) >= 1
                     /\ requests'[th].pc # requests[th].pc
                     /\ C32_WritesLeft(requests'[th].pc) = C32_WritesLeft(requests[th].pc) - 1
           /\ \A th \in Threads :
                LET before == requests[th].pc
                    after == requests'[th].pc
                IN  /\ (before = "idle" /\ after # "idle")
                         => /\ C32_WritesLeft(after) >= 1
                            /\ C32_NoPrimaryWrite /\ events' = events
                    /\ (after \in C32_EventPcs /\ before # after)
                         => C32_WritesLeft(before) = 1 /\ events' = events
                    /\ (after = "returned" /\ before # after)
                         => before \in C32_EventPcs /\ Appended ]_rvars

\* a move went through: both its writes are applied and its event is logged; a
\* removeStock of one unit stopped after its write: the unit is gone and the log
\* has no stock_out
C32_Witness ==
    /\ requests[1].pc = "returned"
    /\ requests[2].pc = "stopped" /\ requests[2].at = "out_event"
    /\ Len(events) = 1 /\ events[1].action = "stock_move"
    /\ SumMenge(inventar) = SumMenge(SeedInventar) - 1

(***************************************************************************)
(* C33  move with source equal to target.  The service accepts             *)
(* move(w,w,p,q) with 0 < q <= quantity(w,p) for a warehouse and a product *)
(* that exist.  After it there is still exactly one row for (w,p), with    *)
(* the quantity it had before: the same row when q is below the stock, a   *)
(* new row when q is the whole stock.  No other row changes, and one       *)
(* stock_move event is appended.                                           *)
(***************************************************************************)
\* the step is a successful move of q units of p from w to w
C33_SelfMove(w, p, q) ==
    /\ Appended
    /\ NewEvent.action = "stock_move"
    /\ NewEvent.entity_id = <<p>>
    /\ move_product(w, w, p, q)

C33_MoveToSelf ==
    /\ [](\A w \in DOMAIN lager, p \in DOMAIN produkte :
            \A entry \in Rows(inventar, w, p) :
              \A q \in 1..MaxMenge :
                q <= entry.menge => move_product_raises(w, w, p, q, entry) = OK)
    /\ [][ (Appended /\ NewEvent.action = "stock_move") =>
             \A w \in LagerArgs, p \in ProduktArgs, q \in MengeArgs :
               C33_SelfMove(w, p, q) =>
                 /\ 0 < q /\ q <= Qty(inventar, w, p)
                 /\ Cardinality(Rows(inventar', w, p)) = 1
                 /\ Qty(inventar', w, p) = Qty(inventar, w, p)
                 /\ IF q = Qty(inventar, w, p)
                    THEN \A e \in Rows(inventar', w, p) :
                           e._id = next_oid /\ next_oid' = next_oid + 1
                    ELSE Rows(inventar', w, p) = Rows(inventar, w, p)
                 /\ OtherRows(inventar', {<<w, p>>}) = OtherRows(inventar, {<<w, p>>})
                 /\ Len(events') = Len(events) + 1
                 /\ UNCHANGED <<lager, produkte>> ]_vars

\* the whole stock of product 3 in warehouse 1 was moved to warehouse 1: the pair has
\* one row of one unit again, a new one; then one of the two units of product 4 in
\* warehouse 2 was moved to warehouse 2: its row is the one it was
C33_Witness ==
    /\ Len(events) = 2
    /\ \A i \in 1..2 : events[i].action = "stock_move" /\ events[i].summary[3] = events[i].summary[4]
    /\ Rows(inventar, 1, 3) = {[_id |-> 8, lager_id |-> 1, produkt_id |-> 3, menge |-> 1]}
    /\ [_id |-> 7, lager_id |-> 2, produkt_id |-> 4, menge |-> 2] \in inventar
    /\ events[2].entity_id = <<4>>
    /\ lager = SeedLager

(***************************************************************************)
(* C34  The capacity guard counts rows, not stock.  update_warehouse       *)
(* refuses a new max_plaetze exactly when it is below the number of        *)
(* product ids that the inventory rows of the warehouse carry.  Every row  *)
(* counts: also a row whose quantity is 0 (a placeholder of add with       *)
(* quantity 0, a row emptied by removeStock) and a row whose product has   *)
(* been deleted.  A max_plaetze that an update stores is at least that     *)
(* number.                                                                 *)
(***************************************************************************)
\* the product ids with a row in the warehouse, whatever the row holds
C34_Slots(w) == {p \in ProduktArgs \ {NoSuchId} : Rows(inventar, w, p) # {}}

C34_GuardCountsRows ==
    /\ [](\A w \in DOMAIN lager, n \in 1..MaxPlaetze :
            update_warehouse_raises(w, [max_plaetze |-> n])
               = IF n < Cardinality(C34_Slots(w))
                 THEN <<"ValueError", "belegt">> ELSE OK)
    /\ [][ (Appended /\ NewEvent.entity_type = "lager" /\ NewEvent.action = "update") =>
             \A w \in DOMAIN lager :
               (NewEvent.entity_id = <<w>> /\ lager'[w].max_plaetze # lager[w].max_plaetze)
                  => lager'[w].max_plaetze >= Cardinality(C34_Slots(w)) ]_vars

\* warehouse 2 holds an emptied row of product 3 and a row of product 4, which has
\* been deleted: no unit of a known product is in stock, and a capacity of 1 is
\* refused for the two rows
C34_Witness ==
    /\ Len(events) = 2
    /\ \E e \in Rows(inventar, 2, 3) : e.menge = 0
    /\ Rows(inventar, 2, 4) # {} /\ 4 \notin DOMAIN produkte
    /\ update_warehouse_raises(2, [max_plaetze |-> 1]) = <<"ValueError", "belegt">>

(***************************************************************************)
(* C35  Cascade in the route layer.  After the delete route of the second  *)
(* interface has handled an existing product (page2_delete_product) or     *)
(* warehouse (page3_delete_warehouse), the record is gone and no inventory *)
(* row references it.  Every such row was removed through remove_product:  *)
(* the log has gained one stock_remove event per row, in the order of the  *)
(* rows, and after them the delete event of the record.  The rows of other *)
(* records are as they were.                                               *)
(***************************************************************************)
\* the events that the step appended
C35_NewEvents == SubSeq(events', Len(events) + 1, Len(events'))

\* the step removed the given rows one by one and then logged the delete of the record
C35_Cascaded(rows, entity_type, id) ==
    /\ inventar' = inventar \ rows
    /\ Len(C35_NewEvents) = Cardinality(rows) + 1
    /\ \A i \in 1..Cardinality(rows) :
         /\ C35_NewEvents[i].action = "stock_remove"
         /\ C35_NewEvents[i].entity_id
               = <<find_all(rows)[i].lager_id, find_all(rows)[i].produkt_id>>
    /\ C35_NewEvents[Cardinality(rows) + 1].entity_type = entity_type
    /\ C35_NewEvents[Cardinality(rows) + 1].action = "delete"
    /\ C35_NewEvents[Cardinality(rows) + 1].entity_id = <<id>>

C35_RouteCascade ==
    [][ /\ \A p \in DOMAIN produkte :
             page2_delete_product(p) =>
               /\ p \notin DOMAIN produkte'
               /\ \A e \in inventar' : e.produkt_id # p
               /\ C35_Cascaded({e \in inventar : e.produkt_id = p}, "produkt", p)
               /\ UNCHANGED <<lager, next_oid>>
        /\ \A w \in DOMAIN lager :
             page3_delete_warehouse(w) =>
               /\ w \notin DOMAIN lager'
               /\ \A e \in inventar' : e.lager_id # w
               /\ C35_Cascaded({e \in inventar : e.lager_id = w}, "lager", w)
               /\ UNCHANGED <<produkte, next_oid>> ]_vars

\* product 3, in stock in both warehouses, was deleted through the route: two
\* stock_remove events and the delete event, and the one row left is of product 4
C35_Witness ==
    /\ Len(events) = 3
    /\ events[1].action = "stock_remove" /\ events[1].entity_id = <<1, 3>>
    /\ events[2].action = "stock_remove" /\ events[2].entity_id = <<2, 3>>
    /\ events[3].action = "delete" /\ events[3].entity_id = <<3>>
    /\ 3 \notin DOMAIN produkte
    /\ inventar = {[_id |-> 7, lager_id |-> 2, produkt_id |-> 4, menge |-> 2]}

(***************************************************************************)
(* C36  inventory_report(warehouse_id) fails with KeyError for an unknown  *)
(* warehouse.  For a known one it returns one row per inventory row of the *)
(* warehouse, each carrying the row's product id and quantity, sorted      *)
(* ascending by product name and then by product id.  It writes nothing to *)
(* the store.                                                              *)
(***************************************************************************)
\* the report of warehouse w has one row for each of its inventory rows
C36_OneRowEach(w, report) ==
    /\ Len(report) = Cardinality(find_inventory_by_warehouse(inventar, w))
    /\ \A e \in find_inventory_by_warehouse(inventar, w) :
         \E i \in 1..Len(report) :
           /\ report[i].lager_id = w
           /\ report[i].produkt_id = e.produkt_id
           /\ report[i].menge = e.menge
           /\ report[i].produkt_name = IF e.produkt_id \in DOMAIN produkte
                                       THEN produkte[e.produkt_id].name ELSE <<"?">>

\* no row of the report comes after a row with a greater name, or with the same
\* name and a greater product id
C36_Sorted(report) ==
    \A i \in 1..Len(report), j \in 1..Len(report) :
      i < j =>
        \/ str_lt(report[i].produkt_name, report[j].produkt_name)
        \/ /\ report[i].produkt_name = report[j].produkt_name
           /\ report[i].produkt_id <= report[j].produkt_id

C36_InventoryReport ==
    /\ [](\A w \in LagerArgs :
            IF w \in DOMAIN lager
            THEN /\ inventory_report_raises(w) = OK
                 /\ \A report \in {inventory_report_returns(w)} :
                      C36_OneRowEach(w, report) /\ C36_Sorted(report)
            ELSE inventory_report_raises(w) = <<"KeyError", "lager">>)
    /\ [][ \A w \in LagerArgs : inventory_report(w) => UNCHANGED vars ]_vars

\* product 4 of warehouse 2 was deleted: its row, read second, comes first in the
\* report under the name "?", before product 3, and both rows carry their quantity
C36_Witness ==
    /\ 2 \in DOMAIN lager /\ 4 \notin DOMAIN produkte /\ 3 \in DOMAIN produkte
    /\ Len(inventory_report_returns(2)) = 2
    /\ inventory_report_returns(2)[1].produkt_id = 4
    /\ inventory_report_returns(2)[1].menge = 2
    /\ inventory_report_returns(2)[2].produkt_id = 3
    /\ inventory_report_returns(2)[2].menge = 1
====
